---- MODULE Spec2Model ----
(***************************************************************************)
(* GlobalMasterTemplateService                                             *)
(* (src/landppt/services/global_master_template_service.py)                *)
(*                                                                         *)
(* Text is a sequence of tokens.  Each token stands for the literal piece  *)
(* of text the extraction and validation code looks for, or for text that  *)
(* holds none of these pieces.                                             *)
(***************************************************************************)
EXTENDS Integers, Sequences, FiniteSets, TLC

\* ------------------------------------------------------------------ text

\* FENCE stands for the three backquote characters that open or close a
\* fenced block; FENCEhtml and FENCEHTML are a fence with its language tag.

\* 2000 characters of prose holding no fence and no tag
Prose == "prose[2000]"

Tokens ==
    { " ", "text", Prose, "FENCEhtml", "FENCEHTML", "FENCE",
      "<!DOCTYPE html", "<!doctype html", "</html>", "</HTML>",
      "<head", "<body", "<title", "<TITLE" }

\* len() of one token
TokLen(t) ==
    CASE t = " "              -> 1
      [] t = "text"           -> 4
      [] t = Prose            -> 2000
      [] t = "FENCEhtml"        -> 7
      [] t = "FENCEHTML"        -> 7
      [] t = "FENCE"            -> 3
      [] t = "<!DOCTYPE html" -> 14
      [] t = "<!doctype html" -> 14
      [] t = "</html>"        -> 7
      [] t = "</HTML>"        -> 7
      [] OTHER                -> 5

RECURSIVE StrLen(_)
\* len(s)
StrLen(s) == IF s = <<>> THEN 0 ELSE TokLen(Head(s)) + StrLen(Tail(s))

\* str.lower() of one token
LowerTok(t) ==
    CASE t = "<!DOCTYPE html" -> "<!doctype html"
      [] t = "</HTML>"        -> "</html>"
      [] t = "FENCEHTML"        -> "FENCEhtml"
      [] t = "<TITLE"         -> "<title"
      [] OTHER                -> t

\* str.lower()
Lower(s) == [i \in 1..Len(s) |-> LowerTok(s[i])]

RECURSIVE LStrip(_)
LStrip(s) == IF s # <<>> /\ Head(s) = " " THEN LStrip(Tail(s)) ELSE s

RECURSIVE RStrip(_)
RStrip(s) ==
    IF s # <<>> /\ s[Len(s)] = " " THEN RStrip(SubSeq(s, 1, Len(s) - 1)) ELSE s

\* str.strip()
Strip(s) == RStrip(LStrip(s))

\* sub in s, for a one-token sub
Contains(s, t) == \E i \in 1..Len(s) : s[i] = t

\* s.startswith(t)
StartsWith(s, t) == Len(s) > 0 /\ s[1] = t

\* s.endswith(t)
EndsWith(s, t) == Len(s) > 0 /\ s[Len(s)] = t

\* the value None, distinct from every string
None == <<"None">>

\* Python truthiness of an optional string: "not x"
Falsy(x) == x = None \/ x = <<>>

\* every token that begins with the three backquotes of a fence
IsFence(t) == t \in {"FENCE", "FENCEhtml", "FENCEHTML"}

\* <!DOCTYPE html under re.IGNORECASE
IsDoctype(t) == LowerTok(t) = "<!doctype html"

\* </html> under re.IGNORECASE
IsEndHtml(t) == LowerTok(t) = "</html>"

\* \s* between positions i and j (exclusive) of s
OnlySpace(s, i, j) == \A k \in (i + 1)..(j - 1) : s[k] = " "

Min(S) == CHOOSE x \in S : \A y \in S : x <= y

\* ------------------------------------------- _extract_html_from_response

\* re.search(r'FENCEhtml\s*(.*?)\s*FENCE', ..., re.DOTALL): the opening fences
\* that have a closing fence after them
HtmlFenceStarts(s) ==
    {i \in 1..Len(s) : s[i] = "FENCEhtml" /\ \E j \in (i + 1)..Len(s) : IsFence(s[j])}

\* the match is greedy: the group runs to the last closing fence
HtmlFenceGroup_greedy(s) ==
    LET i == Min(HtmlFenceStarts(s))
        j == CHOOSE k \in (i + 1)..Len(s) :
                 IsFence(s[k]) /\ \A m \in (k + 1)..Len(s) : ~IsFence(s[m])
    IN  SubSeq(s, i + 1, j - 1)

HtmlFenceGroup(s) ==
    LET i == Min(HtmlFenceStarts(s))
        j == Min({k \in (i + 1)..Len(s) : IsFence(s[k])})
    IN  SubSeq(s, i + 1, j - 1)

\* re.search(r'FENCE[a-zA-Z]*\s*(<!DOCTYPE html.*?</html>)\s*FENCE', ...,
\* re.DOTALL | re.IGNORECASE): [fence, doctype, end] positions of a match
CodeBlockEnds(s, d) ==
    {e \in (d + 1)..Len(s) :
        /\ IsEndHtml(s[e])
        /\ \E c \in (e + 1)..Len(s) : IsFence(s[c]) /\ OnlySpace(s, e, c)}

CodeBlockStarts(s) ==
    {i \in 1..Len(s) :
        /\ IsFence(s[i])
        /\ \E d \in (i + 1)..Len(s) :
              IsDoctype(s[d]) /\ OnlySpace(s, i, d) /\ CodeBlockEnds(s, d) # {}}

CodeBlockGroup(s) ==
    LET i == Min(CodeBlockStarts(s))
        d == Min({k \in (i + 1)..Len(s) : IsDoctype(s[k]) /\ OnlySpace(s, i, k)})
        e == Min(CodeBlockEnds(s, d))
    IN  SubSeq(s, d, e)

\* the doctype is matched in upper case only
DoctypeStarts_casesensitive(s) ==
    {d \in 1..Len(s) :
        s[d] = "<!DOCTYPE html" /\ \E e \in (d + 1)..Len(s) : IsEndHtml(s[e])}

\* re.search(r'<!DOCTYPE html.*?</html>', ..., re.DOTALL | re.IGNORECASE)
DoctypeStarts(s) ==
    {d \in 1..Len(s) : IsDoctype(s[d]) /\ \E e \in (d + 1)..Len(s) : IsEndHtml(s[e])}

DoctypeGroup(s) ==
    LET d == Min(DoctypeStarts(s))
        e == Min({k \in (d + 1)..Len(s) : IsEndHtml(s[k])})
    IN  SubSeq(s, d, e)

\* the whole trimmed content is a document
ContentIsHtml(s) ==
    /\ StartsWith(Lower(Strip(s)), "<!doctype html")
    /\ EndsWith(Lower(Strip(s)), "</html>")

\* the bare doctype span is looked for before the fenced blocks
ExtractRule_doctypefirst(s) ==
    IF DoctypeStarts(s) # {} THEN 3
    ELSE IF HtmlFenceStarts(s) # {} THEN 1
    ELSE IF CodeBlockStarts(s) # {} THEN 2
    ELSE IF ContentIsHtml(s) THEN 4
    ELSE 5

\* which of the five returns of _extract_html_from_response is taken
ExtractRule(s) ==
    IF HtmlFenceStarts(s) # {} THEN 1
    ELSE IF CodeBlockStarts(s) # {} THEN 2
    ELSE IF DoctypeStarts(s) # {} THEN 3
    ELSE IF ContentIsHtml(s) THEN 4
    ELSE 5

\* the last resort returns the content as it is, not trimmed
_extract_html_from_response_untrimmed(response_content) ==
    CASE ExtractRule(response_content) = 1 -> Strip(HtmlFenceGroup(response_content))
      [] ExtractRule(response_content) = 2 -> Strip(CodeBlockGroup(response_content))
      [] ExtractRule(response_content) = 3 -> Strip(DoctypeGroup(response_content))
      [] ExtractRule(response_content) = 4 -> Strip(response_content)
      [] OTHER                             -> response_content

_extract_html_from_response(response_content) ==
    CASE ExtractRule(response_content) = 1 -> Strip(HtmlFenceGroup(response_content))
      [] ExtractRule(response_content) = 2 -> Strip(CodeBlockGroup(response_content))
      [] ExtractRule(response_content) = 3 -> Strip(DoctypeGroup(response_content))
      [] ExtractRule(response_content) = 4 -> Strip(response_content)
      [] OTHER                             -> Strip(response_content)

\* ---------------------------------------------- _validate_html_template

\* the title is not among the required elements
required_elements_notitle == {"<head", "<body"}

required_elements == {"<head", "<body", "<title"}

_validate_html_template(html_content) ==
    IF Falsy(html_content) \/ Strip(html_content) = <<>> THEN FALSE
    ELSE LET html_lower == Strip(Lower(html_content))
         IN  /\ StartsWith(html_lower, "<!doctype html")
             /\ Contains(html_lower, "</html>")
             /\ \A el \in required_elements : Contains(html_lower, el)

\* ------------------------------------------------------------ the inputs

\* generation_mode; "poster" stands for any string that is no known mode
Modes == {"text_only", "reference_style", "one_to_one", "poster"}

\* reference_image: None, or a dict with 'data' and (possibly) 'type'.
\* 'data' is text too: "data:" is the scheme of a data URL.
NoImage == [given |-> FALSE, data |-> <<>>, type |-> "absent"]

ReferenceImages ==
    { NoImage,
      [given |-> TRUE, data |-> <<"aGVsbG8=">>, type |-> "image/png"],
      [given |-> TRUE, data |-> <<"aGVsbG8=">>, type |-> "absent"],
      [given |-> TRUE, data |-> <<"data:", "image/jpeg", ";base64,", "aGVsbG8=">>,
       type |-> "image/jpeg"] }

\* what get_role_provider("template") hands out: no provider, or one
Providers == {"None", "provider"}

\* a document that passes validation, and one that lacks <title
ValidDoc == <<"<!DOCTYPE html", "<head", "<title", "<body", "</html>">>
NoTitleDoc == <<"<!DOCTYPE html", "<head", "<body", "</html>">>

\* the texts the model returns
Responses ==
    { <<>>,
      <<" ">>,
      <<"text", "FENCEhtml", " ">> \o ValidDoc \o <<" ", "FENCE">>,
      <<Prose, "FENCEhtml", " ">> \o ValidDoc \o <<" ", "FENCE", "text">>,
      <<Prose, "FENCEhtml">> \o NoTitleDoc \o <<"FENCE">>,
      <<Prose, "FENCEhtml", " ", "FENCE">> }

ProviderError == "ProviderError"

\* the exceptions a provider call raises
ProviderErrors == {ProviderError, "TimeoutError"}

\* one provider call: it raises, or it returns a response with this content
ProviderOutcomes ==
    {[kind |-> "raise", content |-> None, error |-> e] : e \in ProviderErrors}
    \cup {[kind |-> "content", content |-> r, error |-> "none"] : r \in Responses}

\* the pieces a provider's stream hands out
Chunks ==
    { <<"text", "FENCEhtml">>, ValidDoc, NoTitleDoc, <<"FENCE">> }

\* the longest provider stream, in chunks
MaxChunks == 3

\* the pieces the texts handed to _extract_html_from_response are made of
TextPieces ==
    { <<" ">>, <<"text">>, <<"FENCEhtml">>, <<"FENCEHTML">>, <<"FENCE">>, ValidDoc,
      <<"<!doctype html">>, <<"</HTML>">>, <<"<title">> }

\* the longest text, in pieces
MaxPieces == 4

RECURSIVE Texts(_)
\* the texts of at most n pieces
Texts(n) ==
    IF n = 0 THEN {<<>>}
    ELSE Texts(n - 1) \cup {t \o p : t \in Texts(n - 1), p \in TextPieces}

RECURSIVE Concat(_)
\* the concatenation of a sequence of texts
Concat(q) == IF q = <<>> THEN <<>> ELSE Head(q) \o Concat(Tail(q))

\* the candidates handed to _validate_html_template: None, and what is made
\* of an optional lead, a doctype or none, any of the three required opening
\* tags, a closing tag or none, and an optional trail
Candidates ==
    {None} \cup
    { Concat(<<lead, doctype, head, body, title, close, trail>>) :
        lead \in {<<>>, <<" ">>, <<"text">>},
        doctype \in {<<>>, <<"<!DOCTYPE html">>, <<"<!doctype html">>},
        head \in {<<>>, <<"<head">>},
        body \in {<<>>, <<"<body">>},
        title \in {<<>>, <<"<title">>, <<"<TITLE">>},
        close \in {<<>>, <<"</html>">>, <<"</HTML>">>},
        trail \in {<<>>, <<" ">>} }

\* no text function has been called
\* a field of template_data or update_data: absent, empty, or holding a value
FieldStates == {"missing", "empty"}

NoData ==
    [template_name |-> "missing", html_template |-> "missing",
     preview_image |-> "missing", style_config |-> "missing"]

\* no CRUD call is followed
NoSvc ==
    [op |-> "none", id |-> 0, arg |-> NoData, data |-> NoData, pc |-> "done",
     block |-> 0,
     open |-> 0, acquired |-> 0, calls |-> <<>>, failed |-> FALSE,
     next |-> "none", ret |-> "none", err |-> "none", status |-> "none"]

NoCall == [fn |-> "none", arg |-> <<>>, returned |-> FALSE, ret |-> <<>>]

\* a text function has been called with an argument and has not returned
Called(fn, arg) == [fn |-> fn, arg |-> arg, returned |-> FALSE, ret |-> <<>>]

\* ------------------------------------------------------------- the state

VARIABLES
    op,               \* the operation the request runs
    generation_mode,  \* its arguments
    reference_image,
    pc,               \* where the operation is
    provider,         \* the provider resolved for the "template" role
    can_stream,       \* what hasattr(provider, 'stream_..._completion') gave
    messages,         \* the content parts of the one user message
    attempt,          \* the loop variable of the retry loop
    full_response,
    html_template,
    history,          \* the outcome of every provider call made, in order
    calls,            \* every provider method invoked, in order
    events,           \* every event the generator has yielded, in order
    status,           \* "running", "returned", "raised" or "finished"
    error,            \* the exception that left the operation
    result,           \* the dict returned by generate_template_with_ai
    store,            \* the template records the persistence layer holds, by id
    next_id,          \* the id the next created record gets
    req,              \* the CRUD requests in progress
    listing,          \* the latest paginated listing: its arguments and result
    call,             \* the latest call of a text function: argument and result
    svc               \* one CRUD call followed step by step: sessions and calls

aiVars ==
    <<op, generation_mode, reference_image, pc, provider, can_stream, messages,
      attempt, full_response, html_template, history, calls, events, status, error, result>>

crudVars == <<store, next_id, req, listing, call, svc>>

vars == <<aiVars, crudVars>>

Ops == {"generate", "generate_stream", "adjust_stream"}

NoResult == [html_template |-> None, llm_response |-> None]

\* ---------------------------------------------------- prompt construction

\* reference_image is truthy
ImageGiven(image) == image.given

\* the test looks at the mode only, not at whether an image was given
UseTextPrompt_modeonly(mode, image) == mode = "text_only"

\* the test that picks the text-only prompt
UseTextPrompt(mode, image) == mode = "text_only" \/ ~ImageGiven(image)

\* the instruction template the prompt text is built from
PromptTemplate(mode, image) ==
    IF UseTextPrompt(mode, image) THEN "text_only"
    ELSE IF mode = "reference_style" THEN "reference_style"
    ELSE "one_to_one"

\* the data URL of the image part
ImageUrl(image, default_type) ==
    IF StartsWith(image.data, "data:") THEN image.data
    ELSE <<"data:", (IF image.type = "absent" THEN default_type ELSE image.type),
           ";base64,">> \o image.data

TextPart(template) == [type |-> "text", template |-> template, url |-> <<>>]
ImagePart(url) == [type |-> "image_url", template |-> "none", url |-> url]

HasImagePart(msg) == \E i \in 1..Len(msg) : msg[i].type = "image_url"

AiInit ==
    /\ op \in Ops
    /\ generation_mode \in (IF op = "adjust_stream" THEN {"text_only"} ELSE Modes)
    /\ reference_image \in (IF op = "adjust_stream" THEN {NoImage} ELSE ReferenceImages)
    /\ pc = "start"
    /\ provider = "unresolved"
    /\ can_stream = FALSE
    /\ messages = <<>>
    /\ attempt = 0
    /\ full_response = None
    /\ html_template = None
    /\ history = <<>>
    /\ calls = <<>>
    /\ events = <<>>
    /\ status = "running"
    /\ error = "none"
    /\ result = NoResult

\* an exception leaves the operation
Raise(e) ==
    /\ status' = "raised"
    /\ error' = e
    /\ pc' = "done"


\* ------------------------------------------ generate_template_with_ai

max_retries == 5

\* a response shorter than this is retried
short_response_len == 2000

ErrKey == "KeyError: 'type'"
ErrNoProvider == "ValueError: AI service not configured or unavailable"
ErrEmpty == "ValueError: AI service returned an empty response"
ErrExtract == "ValueError: no valid HTML template found in the AI response"
ErrValidation == "ValueError: generated HTML template failed validation"
ErrNoTemplate == "ValueError: Failed to generate valid HTML template after all retries"

\* the messages list built before the try block
GenMessages(mode, image) ==
    IF UseTextPrompt(mode, image)
    THEN <<TextPart("text_only")>>
    ELSE <<TextPart(PromptTemplate(mode, image)), ImagePart(ImageUrl(image, "absent"))>>

\* reference_image['type'] is read when the data is bare base64
GenPromptRaises(mode, image) ==
    /\ ~UseTextPrompt(mode, image)
    /\ ~StartsWith(image.data, "data:")
    /\ image.type = "absent"

\* the conversion into AIMessage content parts: an image part is kept only
\* when its url is a data URL
ConvertParts(msg) ==
    SelectSeq(msg, LAMBDA part :
        part.type = "text" \/ (part.type = "image_url" /\ StartsWith(part.url, "data:")))

GenBuildPrompt ==
    /\ op = "generate" /\ pc = "start"
    /\ IF GenPromptRaises(generation_mode, reference_image)
       THEN Raise(ErrKey) /\ UNCHANGED messages
       ELSE /\ messages' = GenMessages(generation_mode, reference_image)
            /\ pc' = "resolve"
            /\ UNCHANGED <<status, error>>
    /\ UNCHANGED <<op, generation_mode, reference_image, provider, can_stream, attempt,
                   full_response, html_template, history, calls, events, result>>
    /\ UNCHANGED crudVars

GenResolveProvider ==
    /\ op = "generate" /\ pc = "resolve"
    /\ \E p \in Providers :
          /\ provider' = p
          /\ IF p = "None"
             THEN Raise(ErrNoProvider) /\ UNCHANGED messages
             ELSE /\ messages' = ConvertParts(messages)
                  /\ pc' = "attempt"
                  /\ UNCHANGED <<status, error>>
    /\ UNCHANGED <<op, generation_mode, reference_image, can_stream, attempt,
                   full_response, html_template, history, calls, events, result>>
    /\ UNCHANGED crudVars

\* only the empty string counts as an empty response, not a blank one
EmptyResponse_noblank(text) == Falsy(text)

\* "not full_response or not full_response.strip()"
EmptyResponse(text) == Falsy(text) \/ Strip(text) = <<>>

\* the length check is missing
TooShort_never(text) == FALSE

\* "len(full_response) < 2000"
TooShort(text) == StrLen(text) < short_response_len

\* the last attempt is taken to be the one before the last
MayRetry_early(a) == a < max_retries - 2

\* attempt is not the last one: the loop goes on instead of raising
MayRetry(a) == a < max_retries - 1

\* a failed attempt raises at once instead of going on to the next one
Continue_raise(fr, ht) ==
    [ctl |-> "raise", full_response |-> fr, html_template |-> ht, error |-> ErrNoTemplate]

Continue(fr, ht) ==
    [ctl |-> "continue", full_response |-> fr, html_template |-> ht, error |-> "none"]

\* the exception of the last attempt is replaced by a generic one
Reraise_wrapped(fr, ht, e) ==
    [ctl |-> "raise", full_response |-> fr, html_template |-> ht, error |-> ErrNoTemplate]

Reraise(fr, ht, e) ==
    [ctl |-> "raise", full_response |-> fr, html_template |-> ht, error |-> e]

\* the break is missing: a valid template does not stop the loop
Break_missing(fr, ht) ==
    [ctl |-> "continue", full_response |-> fr, html_template |-> ht, error |-> "none"]

Break(fr, ht) ==
    [ctl |-> "break", full_response |-> fr, html_template |-> ht, error |-> "none"]

\* "if not self._validate_html_template(html_template)" in the retry loop
GenRejects(html) == ~_validate_html_template(html)

\* a failed last attempt goes on like any other, so the loop runs out
AttemptBody_runsout(o, a, fr, ht) ==
    IF o.kind = "raise"
    THEN Continue(fr, ht)
    ELSE LET full == o.content
             html == _extract_html_from_response(full)
         IN  IF EmptyResponse(full)
             THEN Continue(full, ht)
             ELSE IF TooShort(full) /\ MayRetry(a)
             THEN Continue(full, ht)
             ELSE IF Falsy(html) \/ Strip(html) = <<>>
             THEN Continue(full, html)
             ELSE IF GenRejects(html)
             THEN Continue(full, html)
             ELSE Break(full, html)

\* what one pass of the loop body does with the provider's outcome o, given
\* the loop variable a and the values fr, ht left by the passes before:
\* ctl is "continue", "break" or "raise"
AttemptBody(o, a, fr, ht) ==
    IF o.kind = "raise"
    THEN IF MayRetry(a) THEN Continue(fr, ht) ELSE Reraise(fr, ht, o.error)
    ELSE LET full == o.content
             html == _extract_html_from_response(full)
         IN  IF EmptyResponse(full)
             THEN IF MayRetry(a) THEN Continue(full, ht) ELSE Reraise(full, ht, ErrEmpty)
             ELSE IF TooShort(full) /\ MayRetry(a)
             THEN Continue(full, ht)
             ELSE IF Falsy(html) \/ Strip(html) = <<>>
             THEN IF MayRetry(a) THEN Continue(full, html)
                  ELSE Reraise(full, html, ErrExtract)
             ELSE IF GenRejects(html)
             THEN IF MayRetry(a) THEN Continue(full, html)
                  ELSE Reraise(full, html, ErrValidation)
             ELSE Break(full, html)

\* the completion is chosen by whether the message has an image part
GenCall_bystyle(msg) ==
    [api |-> IF HasImagePart(msg) THEN "chat_completion" ELSE "text_completion",
     image |-> HasImagePart(msg)]

\* "await self._chat_completion(messages=ai_messages, ...)"
GenCall(msg) == [api |-> "chat_completion", image |-> HasImagePart(msg)]

\* one pass of "for attempt in range(max_retries)"
GenAttempt ==
    /\ op = "generate" /\ pc = "attempt"
    /\ attempt < max_retries
    /\ \E o \in ProviderOutcomes :
          LET r == AttemptBody(o, attempt, full_response, html_template)
          IN  /\ history' = Append(history, o)
              /\ calls' = Append(calls, GenCall(messages))
              /\ full_response' = r.full_response
              /\ html_template' = r.html_template
              /\ CASE r.ctl = "continue" ->
                        /\ attempt' = attempt + 1
                        /\ pc' = IF attempt + 1 < max_retries THEN "attempt" ELSE "after_loop"
                        /\ UNCHANGED <<status, error>>
                   [] r.ctl = "break" ->
                        /\ pc' = "after_loop"
                        /\ UNCHANGED <<attempt, status, error>>
                   [] OTHER ->
                        /\ Raise(r.error)
                        /\ UNCHANGED attempt
    /\ UNCHANGED <<op, generation_mode, reference_image, provider, can_stream,
                   messages, events, result>>
    /\ UNCHANGED crudVars

\* the generated template is saved as a record before it is returned
GenReturn_saves ==
    /\ op = "generate" /\ pc = "after_loop"
    /\ IF Falsy(html_template)
       THEN Raise(ErrNoTemplate) /\ UNCHANGED <<result, store, next_id>>
       ELSE /\ result' = [html_template |-> html_template,
                          llm_response |-> full_response]
            /\ status' = "returned"
            /\ pc' = "done"
            /\ store' = [i \in DOMAIN store \cup {next_id} |->
                            IF i = next_id
                            THEN [template_name |-> "generated", is_default |-> FALSE,
                                  is_active |-> TRUE]
                            ELSE store[i]]
            /\ next_id' = next_id + 1
            /\ UNCHANGED error
    /\ UNCHANGED <<op, generation_mode, reference_image, provider, can_stream, messages,
                   attempt, full_response, html_template, history, calls, events>>
    /\ UNCHANGED <<req, listing, call, svc>>

\* the check after the loop, and the return
GenReturn ==
    /\ op = "generate" /\ pc = "after_loop"
    /\ IF Falsy(html_template)
       THEN Raise(ErrNoTemplate) /\ UNCHANGED result
       ELSE /\ result' = [html_template |-> html_template,
                          llm_response |-> full_response]
            /\ status' = "returned"
            /\ pc' = "done"
            /\ UNCHANGED error
    /\ UNCHANGED <<op, generation_mode, reference_image, provider, can_stream, messages,
                   attempt, full_response, html_template, history, calls, events>>
    /\ UNCHANGED crudVars

\* ----------------------------------------------------- the stream events

Thinking(content) ==
    [type |-> "thinking", content |-> content, message |-> "none",
     html_template |-> None, llm_response |-> None]

Complete(message, html, raw) ==
    [type |-> "complete", content |-> None, message |-> message,
     html_template |-> html, llm_response |-> raw]

ErrorEvent(message) ==
    [type |-> "error", content |-> None, message |-> message,
     html_template |-> None, llm_response |-> None]

\* the status lines the generators yield between the model's output
StatusAnalyzingImage == <<"status: analysing the reference image">>
StatusAnalyzingNeeds == <<"status: analysing your needs">>
StatusOptimizing == <<"status: optimising styles and interaction">>
StatusReady == <<"status: template generated, preparing preview">>
StatusAdjustAnalyzing == <<"status: analysing the adjustment request">>
StatusAdjustRequest == <<"status: adjustment request">>
StatusAdjustStart == <<"status: starting to adjust the template">>
StatusAdjustDone == <<"status: template adjustment finished">>
StatusAdjustDoneNl == <<"newlines", "status: template adjustment finished">>

ErrAttribute == "AttributeError: 'NoneType' object has no attribute"
ErrInvalid == "ValueError: Generated HTML template is invalid"
ErrAdjustInvalid == "ValueError: Adjusted HTML template is invalid"

\* the except clause re-raises instead of yielding the error event
YieldError_reraise(evs, e) ==
    /\ events' = evs
    /\ Raise(e)

\* the except clause of generate_template_with_ai_stream: one error event,
\* then the generator ends
YieldError(evs, e) ==
    /\ events' = Append(evs, ErrorEvent(e))
    /\ status' = "finished"
    /\ pc' = "done"
    /\ UNCHANGED error

\* a provider's stream has ended normally with this text
Streamed(text) == [kind |-> "content", content |-> text, error |-> "none"]

\* ------------------------------------- generate_template_with_ai_stream

\* the test that builds a multimodal message
StreamAttachImage(mode, image) == mode # "text_only" /\ ImageGiven(image)

\* the validation result is ignored
StreamRejects_never(html) == FALSE

\* "if not self._validate_html_template(html_template)" in the generator
StreamRejects(html) == ~_validate_html_template(html)

\* the prompt text, built before the try block
StreamBuildPrompt ==
    /\ op = "generate_stream" /\ pc = "start"
    /\ messages' = <<TextPart(PromptTemplate(generation_mode, reference_image))>>
    /\ pc' = "resolve"
    /\ UNCHANGED <<op, generation_mode, reference_image, provider, can_stream, attempt,
                   full_response, html_template, history, calls, events, status,
                   error, result>>
    /\ UNCHANGED crudVars

\* the provider is resolved, the message built, the streaming method probed
\* for and, when it is there, called
StreamResolve ==
    /\ op = "generate_stream" /\ pc = "resolve"
    /\ \E p \in Providers, has \in BOOLEAN :
          LET attach == StreamAttachImage(generation_mode, reference_image)
          IN  /\ p = "None" => ~has
              /\ provider' = p
              /\ can_stream' = has
              /\ messages' =
                    IF attach
                    THEN Append(messages, ImagePart(ImageUrl(reference_image, "image/png")))
                    ELSE messages
              /\ IF has
                 THEN /\ full_response' = <<>>
                      /\ calls' = Append(calls,
                            [api |-> IF attach THEN "stream_chat_completion"
                                     ELSE "stream_text_completion",
                             image |-> attach])
                      /\ pc' = "streaming"
                 ELSE /\ pc' = "blocking"
                      /\ UNCHANGED <<full_response, calls>>
    /\ UNCHANGED <<op, generation_mode, reference_image, attempt, html_template,
                   history, events, status, error, result>>
    /\ UNCHANGED crudVars

\* the latest chunk replaces what was received
Accumulate_replace(full, chunk) == chunk

\* "full_response += chunk"
Accumulate(full, chunk) == full \o chunk

\* async for chunk in provider.stream_..._completion(...): one chunk
StreamChunk ==
    /\ op = "generate_stream" /\ pc = "streaming"
    /\ Len(events) < MaxChunks
    /\ \E chunk \in Chunks :
          /\ full_response' = Accumulate(full_response, chunk)
          /\ events' = Append(events, Thinking(chunk))
    /\ UNCHANGED <<op, generation_mode, reference_image, pc, provider, can_stream,
                   messages, attempt, html_template, history, calls, status, error,
                   result>>
    /\ UNCHANGED crudVars

\* where control goes when the model's output is complete: the processing of
\* the response belongs to the text branch
AfterOutput(msg) == IF HasImagePart(msg) THEN "done" ELSE "post"

\* the provider's stream is exhausted
StreamEnd ==
    /\ op = "generate_stream" /\ pc = "streaming"
    /\ history' = Append(history, Streamed(full_response))
    /\ pc' = AfterOutput(messages)
    /\ status' = IF AfterOutput(messages) = "done" THEN "finished" ELSE status
    /\ UNCHANGED <<op, generation_mode, reference_image, provider, can_stream, messages,
                   attempt, full_response, html_template, calls, events, error, result>>
    /\ UNCHANGED crudVars

\* the provider's stream raises
StreamRaise ==
    /\ op = "generate_stream" /\ pc = "streaming"
    /\ history' = Append(history, [kind |-> "raise", content |-> None,
                                   error |-> ProviderError])
    /\ YieldError(events, ProviderError)
    /\ UNCHANGED <<op, generation_mode, reference_image, provider, can_stream, messages,
                   attempt, full_response, html_template, calls, result>>
    /\ UNCHANGED crudVars

\* no streaming method: one blocking call, then two simulated events
StreamBlockingCall ==
    /\ op = "generate_stream" /\ pc = "blocking"
    /\ IF provider = "None"
       THEN /\ YieldError(events, ErrAttribute)
            /\ UNCHANGED <<full_response, history, calls>>
       ELSE \E o \in ProviderOutcomes :
              /\ history' = Append(history, o)
              /\ calls' = Append(calls,
                    [api |-> IF HasImagePart(messages) THEN "chat_completion"
                             ELSE "text_completion",
                     image |-> HasImagePart(messages)])
              /\ IF o.kind = "raise"
                 THEN YieldError(events, o.error) /\ UNCHANGED full_response
                 ELSE /\ full_response' = o.content
                      /\ events' = events \o
                            << Thinking(IF HasImagePart(messages)
                                        THEN StatusAnalyzingImage
                                        ELSE StatusAnalyzingNeeds),
                               Thinking(o.content) >>
                      /\ pc' = AfterOutput(messages)
                      /\ status' = IF AfterOutput(messages) = "done"
                                   THEN "finished" ELSE status
                      /\ UNCHANGED error
    /\ UNCHANGED <<op, generation_mode, reference_image, provider, can_stream, messages,
                   attempt, html_template, result>>
    /\ UNCHANGED crudVars

\* a rejected template sends the generator back to the provider
StreamFinish_retry ==
    /\ op = "generate_stream" /\ pc = "post"
    /\ LET html == _extract_html_from_response(full_response)
           evs == Append(events, Thinking(StatusOptimizing))
       IN  /\ html_template' = html
           /\ IF StreamRejects(html)
              THEN /\ events' = evs
                   /\ pc' = "resolve"
                   /\ UNCHANGED <<status, error>>
              ELSE /\ events' = evs \o
                         << Thinking(StatusReady),
                            Complete("template generated", html, full_response) >>
                   /\ status' = "finished"
                   /\ pc' = "done"
                   /\ UNCHANGED error
    /\ UNCHANGED <<op, generation_mode, reference_image, provider, can_stream, messages,
                   attempt, full_response, history, calls, result>>
    /\ UNCHANGED crudVars

\* the response is extracted and validated; complete, or the error event
StreamFinish ==
    /\ op = "generate_stream" /\ pc = "post"
    /\ LET html == _extract_html_from_response(full_response)
           evs == Append(events, Thinking(StatusOptimizing))
       IN  /\ html_template' = html
           /\ IF StreamRejects(html)
              THEN YieldError(evs, ErrInvalid)
              ELSE /\ events' = evs \o
                         << Thinking(StatusReady),
                            Complete("template generated", html, full_response) >>
                   /\ status' = "finished"
                   /\ pc' = "done"
                   /\ UNCHANGED error
    /\ UNCHANGED <<op, generation_mode, reference_image, provider, can_stream, messages,
                   attempt, full_response, history, calls, result>>
    /\ UNCHANGED crudVars

StreamNext ==
    \/ StreamBuildPrompt \/ StreamResolve \/ StreamChunk \/ StreamEnd
    \/ StreamRaise \/ StreamBlockingCall \/ StreamFinish

\* --------------------------------------- adjust_template_with_ai_stream

\* the except clause of adjust_template_with_ai_stream
AdjustYieldError(evs, e) ==
    /\ events' = Append(evs, ErrorEvent(e))
    /\ status' = "finished"
    /\ pc' = "done"
    /\ UNCHANGED error

\* the adjusted template is not validated
AdjustRejects_never(html) == FALSE

\* "if not self._validate_html_template(html_template)" in the generator
AdjustRejects(html) == ~_validate_html_template(html)

\* the provider is resolved and the streaming method probed for and, when it
\* is there, called
AdjustResolve ==
    /\ op = "adjust_stream" /\ pc = "start"
    /\ \E p \in Providers, has \in BOOLEAN :
          /\ p = "None" => ~has
          /\ provider' = p
          /\ can_stream' = has
          /\ messages' = <<TextPart("adjust")>>
          /\ IF has
             THEN /\ full_response' = <<>>
                  /\ calls' = Append(calls, [api |-> "stream_text_completion",
                                             image |-> FALSE])
                  /\ pc' = "streaming"
             ELSE /\ pc' = "blocking"
                  /\ UNCHANGED <<full_response, calls>>
    /\ UNCHANGED <<op, generation_mode, reference_image, attempt, html_template,
                   history, events, status, error, result>>
    /\ UNCHANGED crudVars

AdjustChunk ==
    /\ op = "adjust_stream" /\ pc = "streaming"
    /\ Len(events) < MaxChunks
    /\ \E chunk \in Chunks :
          /\ full_response' = Accumulate(full_response, chunk)
          /\ events' = Append(events, Thinking(chunk))
    /\ UNCHANGED <<op, generation_mode, reference_image, pc, provider, can_stream,
                   messages, attempt, html_template, history, calls, status, error,
                   result>>
    /\ UNCHANGED crudVars

\* the stream is exhausted: the response is extracted and validated
AdjustStreamEnd ==
    /\ op = "adjust_stream" /\ pc = "streaming"
    /\ history' = Append(history, Streamed(full_response))
    /\ LET html == _extract_html_from_response(full_response)
           evs == Append(events, Thinking(StatusAdjustDoneNl))
       IN  /\ html_template' = html
           /\ IF AdjustRejects(html)
              THEN AdjustYieldError(evs, ErrAdjustInvalid)
              ELSE /\ events' = Append(evs, Complete("template adjusted", html, None))
                   /\ status' = "finished"
                   /\ pc' = "done"
                   /\ UNCHANGED error
    /\ UNCHANGED <<op, generation_mode, reference_image, provider, can_stream, messages,
                   attempt, full_response, calls, result>>
    /\ UNCHANGED crudVars

AdjustStreamRaise ==
    /\ op = "adjust_stream" /\ pc = "streaming"
    /\ history' = Append(history, [kind |-> "raise", content |-> None,
                                   error |-> ProviderError])
    /\ AdjustYieldError(events, ProviderError)
    /\ UNCHANGED <<op, generation_mode, reference_image, provider, can_stream, messages,
                   attempt, full_response, html_template, calls, result>>
    /\ UNCHANGED crudVars

\* no streaming method: three simulated events, one blocking call, then the
\* response is extracted and validated
AdjustBlockingCall ==
    /\ op = "adjust_stream" /\ pc = "blocking"
    /\ LET evs == events \o << Thinking(StatusAdjustAnalyzing),
                               Thinking(StatusAdjustRequest),
                               Thinking(StatusAdjustStart) >>
       IN  IF provider = "None"
           THEN /\ AdjustYieldError(evs, ErrAttribute)
                /\ UNCHANGED <<html_template, history, calls>>
           ELSE \E o \in ProviderOutcomes :
                  LET html == _extract_html_from_response(o.content)
                      evs2 == Append(evs, Thinking(StatusAdjustDone))
                  IN  /\ history' = Append(history, o)
                      /\ calls' = Append(calls, [api |-> "text_completion",
                                                 image |-> FALSE])
                      /\ IF o.kind = "raise"
                         THEN AdjustYieldError(evs, o.error) /\ UNCHANGED html_template
                         ELSE /\ html_template' = html
                              /\ IF AdjustRejects(html)
                                 THEN AdjustYieldError(evs2, ErrAdjustInvalid)
                                 ELSE /\ events' = Append(evs2,
                                            Complete("template adjusted", html, None))
                                      /\ status' = "finished"
                                      /\ pc' = "done"
                                      /\ UNCHANGED error
    /\ UNCHANGED <<op, generation_mode, reference_image, provider, can_stream, messages,
                   attempt, full_response, result>>
    /\ UNCHANGED crudVars

AdjustNext ==
    \/ AdjustResolve \/ AdjustChunk \/ AdjustStreamEnd \/ AdjustStreamRaise
    \/ AdjustBlockingCall

GenNext == GenBuildPrompt \/ GenResolveProvider \/ GenAttempt \/ GenReturn

\* ------------------------------------------------ the persistence layer
\* DatabaseService: each operation is one atomic step on the records.

\* the most records ever created
MaxRecords == 2

\* the concurrent requests
Requests == {"r1", "r2"}

Names == {"a", "b"}

\* get_global_master_template_by_name: the ids of the records with the name,
\* active or not
db_get_by_name(records, name) ==
    {id \in DOMAIN records : records[id].template_name = name}

\* get_global_master_template_by_id
db_exists(records, id) == id \in DOMAIN records

\* create_global_master_template
db_create(records, id, data) ==
    [i \in DOMAIN records \cup {id} |->
        IF i = id
        THEN [template_name |-> data.template_name, is_default |-> data.is_default,
              is_active |-> data.is_active]
        ELSE records[i]]

\* update_global_master_template
db_update(records, id, name) ==
    IF id \in DOMAIN records
    THEN [records EXCEPT ![id].template_name = name]
    ELSE records

\* delete_global_master_template
db_delete(records, id) == [i \in DOMAIN records \ {id} |-> records[i]]

\* set_default_global_master_template: the record becomes the only default
db_set_default(records, id) ==
    IF id \in DOMAIN records
    THEN [i \in DOMAIN records |-> [records[i] EXCEPT !.is_default = (i = id)]]
    ELSE records

\* --------------------------------------------------- the CRUD operations

ErrMissingField == "ValueError: Missing required field"
ErrNameExists == "ValueError: Template name already exists"
ErrDeleteDefault == "ValueError: Cannot delete the default template"

NotFound == [id |-> 0, is_default |-> FALSE]

\* ------------------------------------------------ the paginated listings

\* the largest page, page size and number of matching records
MaxPage == 4
MaxPageSize == 7
MaxTotal == 14

\* no listing has been made
NoListing ==
    [op |-> "none", page |-> 1, page_size |-> 1, offset |-> 0, limit |-> 1,
     templates |-> 0, total_count |-> 0, total_pages |-> 0,
     has_next |-> FALSE, has_prev |-> FALSE]

\* get_global_master_templates_paginated and ..._by_tags_paginated: of
\* total_count matching records, the number in the window the call asks for
db_paginated(total_count, offset, limit) ==
    IF total_count <= offset THEN 0
    ELSE IF total_count - offset < limit THEN total_count - offset
    ELSE limit

\* "offset = (page - 1) * page_size"
Offset(page, page_size) == (page - 1) * page_size

\* the division rounds down where it has to round up
TotalPages_floor(total_count, page_size) == total_count \div page_size

\* "total_pages = (total_count + page_size - 1) // page_size"
TotalPages(total_count, page_size) == (total_count + page_size - 1) \div page_size

\* "has_next = page < total_pages"
HasNext(page, total_pages) == page < total_pages

\* "has_prev = page > 1"
HasPrev(page) == page > 1

\* the body the two listings share: the window is asked of the persistence
\* layer, which answers with the records in it and the number of matching
\* records, and the pagination info is computed
Paginated(name, page, page_size, total_count) ==
    [op |-> name, page |-> page, page_size |-> page_size,
     offset |-> Offset(page, page_size), limit |-> page_size,
     templates |-> db_paginated(total_count, Offset(page, page_size), page_size),
     total_count |-> total_count,
     total_pages |-> TotalPages(total_count, page_size),
     has_next |-> HasNext(page, TotalPages(total_count, page_size)),
     has_prev |-> HasPrev(page)]

get_all_templates_paginated ==
    /\ \E page \in 1..MaxPage, page_size \in 1..MaxPageSize, total_count \in 0..MaxTotal :
          listing' = Paginated("get_all_templates_paginated", page, page_size, total_count)
    /\ UNCHANGED <<aiVars, store, next_id, req, call, svc>>

get_templates_by_tags_paginated ==
    /\ \E page \in 1..MaxPage, page_size \in 1..MaxPageSize, total_count \in 0..MaxTotal :
          listing' = Paginated("get_templates_by_tags_paginated", page, page_size,
                               total_count)
    /\ UNCHANGED <<aiVars, store, next_id, req, call, svc>>

PageNext == get_all_templates_paginated \/ get_templates_by_tags_paginated

\* --------------------------------------------------- the text functions

\* _extract_html_from_response returns
ReturnExtract ==
    /\ call.fn = "_extract_html_from_response" /\ ~call.returned
    /\ call' = [call EXCEPT !.returned = TRUE,
                            !.ret = _extract_html_from_response(call.arg)]
    /\ UNCHANGED <<aiVars, store, next_id, req, listing, svc>>

\* _validate_html_template returns
ReturnValidate ==
    /\ call.fn = "_validate_html_template" /\ ~call.returned
    /\ call' = [call EXCEPT !.returned = TRUE,
                            !.ret = _validate_html_template(call.arg)]
    /\ UNCHANGED <<aiVars, store, next_id, req, listing, svc>>

TextNext == ReturnExtract \/ ReturnValidate

\* a request: the operation and its arguments, where it is, the persistence
\* operations it has issued, and what it returned or raised
Idle ==
    [op |-> "idle", pc |-> "done", name |-> "", id |-> 0,
     calls |-> <<>>, ret |-> "none", err |-> "none"]

CrudInit ==
    /\ store = <<>>
    /\ next_id = 1
    /\ req = [r \in Requests |-> Idle]
    /\ listing = NoListing
    /\ call = NoCall
    /\ svc = NoSvc

\* a request calls create_template, update_template, delete_template or
\* set_default_template; create_template checks its required fields first
CrudCall(r) ==
    /\ req[r].pc = "done"
    /\ \/ \E n \in Names \cup {""} :
            req' = [req EXCEPT ![r] =
                      IF n = ""
                      THEN [Idle EXCEPT !.op = "create", !.err = ErrMissingField]
                      ELSE [Idle EXCEPT !.op = "create", !.pc = "lookup", !.name = n]]
       \/ \E id \in 1..MaxRecords, n \in Names :
            req' = [req EXCEPT ![r] =
                      [Idle EXCEPT !.op = "update", !.pc = "lookup", !.id = id,
                                   !.name = n]]
       \/ \E id \in 1..MaxRecords :
            req' = [req EXCEPT ![r] =
                      [Idle EXCEPT !.op = "delete", !.pc = "lookup", !.id = id]]
       \/ \E id \in 1..MaxRecords :
            req' = [req EXCEPT ![r] =
                      [Idle EXCEPT !.op = "set_default", !.pc = "write", !.id = id]]
    /\ UNCHANGED <<store, next_id>>
    /\ UNCHANGED <<aiVars, listing, call, svc>>

\* the duplicate check is missing
CreateNameTaken_never(existing) == FALSE

\* "if existing" in create_template
CreateNameTaken(existing) == existing # 0

\* create_template: the name lookup and the duplicate check
CreateLookup(r) ==
    /\ req[r].op = "create" /\ req[r].pc = "lookup"
    /\ \E existing \in (IF db_get_by_name(store, req[r].name) = {} THEN {0}
                        ELSE db_get_by_name(store, req[r].name)) :
          req' = [req EXCEPT
                    ![r].calls = Append(@, "get_by_name"),
                    ![r].pc = IF CreateNameTaken(existing) THEN "done" ELSE "write",
                    ![r].err = IF CreateNameTaken(existing) THEN ErrNameExists ELSE @]
    /\ UNCHANGED <<store, next_id>>
    /\ UNCHANGED <<aiVars, listing, call, svc>>

\* create_template: the defaults are set and the record is created;
\* template_data may carry is_active
CreateWrite(r) ==
    /\ req[r].op = "create" /\ req[r].pc = "write"
    /\ next_id <= MaxRecords
    /\ \E is_active \in BOOLEAN :
          store' = db_create(store, next_id,
                      [template_name |-> req[r].name, is_default |-> FALSE,
                       is_active |-> is_active])
    /\ next_id' = next_id + 1
    /\ req' = [req EXCEPT ![r].calls = Append(@, "create"),
                          ![r].pc = "done", ![r].ret = "dict"]
    /\ UNCHANGED <<aiVars, listing, call, svc>>

\* "if existing and existing.id != template_id" in update_template
UpdateNameTaken(existing, template_id) == existing # 0 /\ existing # template_id

\* update_template: the name lookup and the conflict check
UpdateLookup(r) ==
    /\ req[r].op = "update" /\ req[r].pc = "lookup"
    /\ \E existing \in (IF db_get_by_name(store, req[r].name) = {} THEN {0}
                        ELSE db_get_by_name(store, req[r].name)) :
          req' = [req EXCEPT
                    ![r].calls = Append(@, "get_by_name"),
                    ![r].pc = IF UpdateNameTaken(existing, req[r].id)
                              THEN "done" ELSE "write",
                    ![r].err = IF UpdateNameTaken(existing, req[r].id)
                               THEN ErrNameExists ELSE @]
    /\ UNCHANGED <<store, next_id>>
    /\ UNCHANGED <<aiVars, listing, call, svc>>

\* update_template: the update is delegated
UpdateWrite(r) ==
    /\ req[r].op = "update" /\ req[r].pc = "write"
    /\ store' = db_update(store, req[r].id, req[r].name)
    /\ req' = [req EXCEPT ![r].calls = Append(@, "update"),
                          ![r].pc = "done",
                          ![r].ret = IF db_exists(store, req[r].id)
                                     THEN "True" ELSE "False"]
    /\ UNCHANGED next_id
    /\ UNCHANGED <<aiVars, listing, call, svc>>

\* the default check is missing
DeleteRefused_never(template) == FALSE

\* "if template.is_default" in delete_template
DeleteRefused(template) == template.is_default

\* delete_template: the lookup by id, the not-found return, the default check
DeleteLookup(r) ==
    /\ req[r].op = "delete" /\ req[r].pc = "lookup"
    /\ LET template ==
              IF db_exists(store, req[r].id)
              THEN [id |-> req[r].id, is_default |-> store[req[r].id].is_default]
              ELSE NotFound
       IN  req' = [req EXCEPT
                     ![r].calls = Append(@, "get_by_id"),
                     ![r].pc = IF template = NotFound \/ DeleteRefused(template)
                               THEN "done" ELSE "write",
                     ![r].ret = IF template = NotFound THEN "False" ELSE @,
                     ![r].err = IF template # NotFound /\ DeleteRefused(template)
                                THEN ErrDeleteDefault ELSE @]
    /\ UNCHANGED <<store, next_id>>
    /\ UNCHANGED <<aiVars, listing, call, svc>>

\* delete_template: the delete is delegated
DeleteWrite(r) ==
    /\ req[r].op = "delete" /\ req[r].pc = "write"
    /\ store' = db_delete(store, req[r].id)
    /\ req' = [req EXCEPT ![r].calls = Append(@, "delete"),
                          ![r].pc = "done",
                          ![r].ret = IF db_exists(store, req[r].id)
                                     THEN "True" ELSE "False"]
    /\ UNCHANGED next_id
    /\ UNCHANGED <<aiVars, listing, call, svc>>

\* set_default_template
SetDefault(r) ==
    /\ req[r].op = "set_default" /\ req[r].pc = "write"
    /\ store' = db_set_default(store, req[r].id)
    /\ req' = [req EXCEPT ![r].calls = Append(@, "set_default"),
                          ![r].pc = "done",
                          ![r].ret = IF db_exists(store, req[r].id)
                                     THEN "True" ELSE "False"]
    /\ UNCHANGED next_id
    /\ UNCHANGED <<aiVars, listing, call, svc>>

CrudNext ==
    \E r \in Requests :
        \/ CrudCall(r)
        \/ CreateLookup(r) \/ CreateWrite(r)
        \/ UpdateLookup(r) \/ UpdateWrite(r)
        \/ DeleteLookup(r) \/ DeleteWrite(r)
        \/ SetDefault(r)

\* --------------------------------------- the CRUD operations, step by step

\* an error of the persistence collaborator or of the session
DbError == "SQLAlchemyError"

\* "not template_data.get(field)" is false, "field in update_data" is true
Truthy(v) == v \notin FieldStates
Present(v) == v # "missing"

\* the data a caller passes to create_template or update_template
SvcData ==
    [template_name : FieldStates \cup Names,
     html_template : FieldStates \cup {"html"},
     preview_image : {"missing", "image"},
     style_config : {"missing", "style"}]

\* what the persistence layer holds before the call: nothing, one record
\* (default or not), two records, and the two records of one name that two
\* concurrent create_template calls leave behind
SvcStores ==
    LET Record(name, default) ==
            [template_name |-> name, is_default |-> default, is_active |-> TRUE]
    IN  { <<>>,
          [i \in {1} |-> Record("a", TRUE)],
          [i \in {2} |-> Record("b", FALSE)],
          [i \in {1, 2} |-> Record(IF i = 1 THEN "a" ELSE "b", i = 1)],
          [i \in {1, 2} |-> Record("a", i = 1)] }

\* the id the collaborator gives to the next record
NextFree(records) ==
    CHOOSE n \in 1..(MaxRecords + 1) :
        \A i \in DOMAIN records : i < n /\ (n - 1 \in DOMAIN records \/ n = 1)

\* only template_name is required
MissingRequired_nameonly(data) == ~Truthy(data.template_name)

\* the loop over the required fields of create_template
MissingRequired(data) ==
    \/ ~Truthy(data.template_name)
    \/ ~Truthy(data.html_template)

\* create_template: the preview image and the style configuration are
\* generated if not provided
Completed(data) ==
    [data EXCEPT !.preview_image = IF Truthy(@) THEN @ ELSE "generated",
                 !.style_config = IF Truthy(@) THEN @ ELSE "generated"]

\* update_template: each is regenerated if html_template is in the update
\* data and the key is not
Regenerated(data) ==
    [data EXCEPT
        !.preview_image =
            IF Present(data.html_template) /\ ~Present(@) THEN "generated" ELSE @,
        !.style_config =
            IF Present(data.html_template) /\ ~Present(@) THEN "generated" ELSE @]

\* the record is never taken as missing
Missing_never(template) == FALSE

\* "if not template": the collaborator found no record
Missing(template) == template = 0

\* the session stays open when the block is left by an error
Release_onsuccess(n, leaving) == IF leaving = "raise" THEN n ELSE n - 1

\* the exit of "async with AsyncSessionLocal() as session"
Release(n, leaving) == n - 1

\* the code before the first session: create_template checks its required
\* fields, update_template skips the name check without a template_name
SvcEnter ==
    /\ svc.pc = "start"
    /\ svc' =
         IF svc.op = "create_template" /\ MissingRequired(svc.data)
         THEN [svc EXCEPT !.pc = "except", !.err = ErrMissingField]
         ELSE IF svc.op = "update_template" /\ ~Present(svc.data.template_name)
         THEN [svc EXCEPT !.pc = "acquire", !.block = 2,
                          !.data = Regenerated(svc.data)]
         ELSE [svc EXCEPT !.pc = "acquire", !.block = 1]
    /\ UNCHANGED <<aiVars, store, next_id, req, listing, call>>

\* "async with AsyncSessionLocal() as session": a session is opened, or
\* opening it fails
SvcAcquire ==
    /\ svc.pc = "acquire"
    /\ \/ svc' = [svc EXCEPT !.pc = "call", !.open = @ + 1, !.acquired = @ + 1]
       \/ svc' = [svc EXCEPT !.pc = "except", !.err = DbError, !.failed = TRUE]
    /\ UNCHANGED <<aiVars, store, next_id, req, listing, call>>

\* the call the operation issues next to the collaborator
DbOp(c) ==
    CASE c.op = "create_template" ->
            IF c.block = 1 THEN "get_by_name" ELSE "create"
      [] c.op = "update_template" ->
            IF c.block = 1 THEN "get_by_name" ELSE "update"
      [] c.op = "delete_template" ->
            IF c.calls = <<>> THEN "get_by_id" ELSE "delete"
      [] c.op = "get_template_by_id" -> "get_by_id"
      [] c.op = "get_default_template" -> "get_default"
      [] c.op = "set_default_template" -> "set_default"
      [] c.op = "increment_template_usage" -> "increment_usage"
      [] c.op \in {"get_all_templates", "get_templates_by_tags"} -> "get_all"
      [] OTHER -> "get_paginated"

\* the call raises: the block is left by the error
SvcCallRaises ==
    /\ svc.pc = "call"
    /\ svc' = [svc EXCEPT !.pc = "exit", !.calls = Append(@, DbOp(svc)),
                          !.next = "raise", !.err = DbError, !.failed = TRUE]
    /\ UNCHANGED <<aiVars, store, next_id, req, listing, call>>

\* the call returns, and the code up to the end of the session block runs
SvcCallReturns ==
    /\ svc.pc = "call"
    /\ LET c == [svc EXCEPT !.calls = Append(@, DbOp(svc)), !.pc = "exit"]
           found == IF db_exists(store, svc.id) THEN svc.id ELSE 0
           template == IF found = 0 THEN NotFound
                       ELSE [id |-> found, is_default |-> store[found].is_default]
           Returning(v) == [c EXCEPT !.next = "return", !.ret = v]
           Raising(e) == [c EXCEPT !.next = "raise", !.err = e]
           Flag(b) == IF b THEN "True" ELSE "False"
       IN  CASE DbOp(svc) = "get_by_name" ->
                  /\ \E existing \in
                        IF db_get_by_name(store, svc.data.template_name) = {}
                        THEN {0}
                        ELSE db_get_by_name(store, svc.data.template_name) :
                        svc' =
                          IF svc.op = "create_template"
                          THEN IF CreateNameTaken(existing)
                               THEN Raising(ErrNameExists)
                               ELSE [c EXCEPT !.next = "continue"]
                          ELSE IF UpdateNameTaken(existing, svc.id)
                               THEN Raising(ErrNameExists)
                               ELSE [c EXCEPT !.next = "continue"]
                  /\ UNCHANGED <<store, next_id>>
             [] DbOp(svc) = "create" ->
                  /\ store' = db_create(store, next_id,
                                 [template_name |-> svc.data.template_name,
                                  is_default |-> FALSE, is_active |-> TRUE])
                  /\ next_id' = next_id + 1
                  /\ svc' = Returning("dict")
             [] DbOp(svc) = "update" ->
                  /\ store' = IF Present(svc.data.template_name)
                              THEN db_update(store, svc.id, svc.data.template_name)
                              ELSE store
                  /\ svc' = Returning(Flag(db_exists(store, svc.id)))
                  /\ UNCHANGED next_id
             [] DbOp(svc) = "get_by_id" ->
                  /\ svc' =
                       IF svc.op = "get_template_by_id"
                       THEN IF Missing(found) THEN Returning("None") ELSE Returning("dict")
                       ELSE IF Missing(found) THEN Returning("False")
                       ELSE IF DeleteRefused(template)
                            THEN Raising(ErrDeleteDefault)
                            ELSE [c EXCEPT !.pc = "call"]
                  /\ UNCHANGED <<store, next_id>>
             [] DbOp(svc) = "delete" ->
                  /\ store' = db_delete(store, svc.id)
                  /\ svc' = Returning(Flag(db_exists(store, svc.id)))
                  /\ UNCHANGED next_id
             [] DbOp(svc) = "get_default" ->
                  /\ \E d \in IF {i \in DOMAIN store : store[i].is_default} = {}
                               THEN {0}
                               ELSE {i \in DOMAIN store : store[i].is_default} :
                        svc' = IF Missing(d) THEN Returning("None") ELSE Returning("dict")
                  /\ UNCHANGED <<store, next_id>>
             [] DbOp(svc) = "set_default" ->
                  /\ store' = db_set_default(store, svc.id)
                  /\ svc' = Returning(Flag(db_exists(store, svc.id)))
                  /\ UNCHANGED next_id
             [] DbOp(svc) = "increment_usage" ->
                  /\ svc' = Returning(Flag(db_exists(store, svc.id)))
                  /\ UNCHANGED <<store, next_id>>
             [] DbOp(svc) = "get_all" ->
                  /\ svc' = Returning("list")
                  /\ UNCHANGED <<store, next_id>>
             [] OTHER ->
                  /\ svc' = Returning("page")
                  /\ UNCHANGED <<store, next_id>>
    /\ UNCHANGED <<aiVars, req, listing, call>>

\* the session block is left: the session is released, and the operation
\* returns, raises into its except clause, or goes on to its second block
SvcExit ==
    /\ svc.pc = "exit"
    /\ LET c == [svc EXCEPT !.open = Release(@, svc.next), !.next = "none"]
       IN  svc' =
             CASE svc.next = "raise" -> [c EXCEPT !.pc = "except"]
               [] svc.next = "return" ->
                    [c EXCEPT !.pc = "done", !.status = "returned"]
               [] OTHER ->
                    [c EXCEPT !.pc = "acquire", !.block = 2,
                              !.data = IF svc.op = "create_template"
                                       THEN Completed(svc.data)
                                       ELSE Regenerated(svc.data)]
    /\ UNCHANGED <<aiVars, store, next_id, req, listing, call>>

\* "except Exception as e": the error is logged and raised again
SvcExcept ==
    /\ svc.pc = "except"
    /\ svc' = [svc EXCEPT !.pc = "done", !.status = "raised"]
    /\ UNCHANGED <<aiVars, store, next_id, req, listing, call>>

SvcNext ==
    \/ SvcEnter
    \/ SvcAcquire
    \/ SvcCallRaises
    \/ SvcCallReturns
    \/ SvcExit
    \/ SvcExcept

\* ------------------------------------------------------ specifications

\* no AI operation runs
AiIdle ==
    /\ op = "none"
    /\ generation_mode = "text_only"
    /\ reference_image = NoImage
    /\ pc = "done"
    /\ provider = "unresolved"
    /\ can_stream = FALSE
    /\ messages = <<>>
    /\ attempt = 0
    /\ full_response = None
    /\ html_template = None
    /\ history = <<>>
    /\ calls = <<>>
    /\ events = <<>>
    /\ status = "finished"
    /\ error = "none"
    /\ result = NoResult

\* one request runs generate, generate_stream or adjust_stream
Init == AiInit /\ CrudInit

Next == GenNext \/ StreamNext \/ AdjustNext

Spec == Init /\ [][Next]_vars

\* a record the persistence layer holds before the request
StoredRecord == [template_name |-> "a", is_default |-> TRUE, is_active |-> TRUE]

\* one request runs generate, generate_stream or adjust_stream while the
\* persistence layer holds a record and no CRUD request is in progress
StoredInit ==
    /\ AiInit
    /\ store = [i \in {1} |-> StoredRecord]
    /\ next_id = 2
    /\ req = [r \in Requests |-> Idle]
    /\ listing = NoListing
    /\ call = NoCall
    /\ svc = NoSvc

StoredSpec == StoredInit /\ [][Next]_vars

\* concurrent requests run the CRUD operations
CrudSpecInit == AiIdle /\ CrudInit

CrudSpec == CrudSpecInit /\ [][CrudNext]_vars

\* requests list the templates page by page
PageSpec == CrudSpecInit /\ [][PageNext]_vars

\* one call of one CRUD operation, on each store: the operations that take
\* a template id are given one, create_template and update_template take data
SvcInit ==
    /\ AiIdle
    /\ store \in SvcStores
    /\ next_id = NextFree(store)
    /\ req = [r \in Requests |-> Idle]
    /\ listing = NoListing
    /\ call = NoCall
    /\ \E o \in {"create_template", "get_all_templates",
                  "get_all_templates_paginated", "get_template_by_id",
                  "update_template", "delete_template", "set_default_template",
                  "get_default_template", "get_templates_by_tags",
                  "get_templates_by_tags_paginated", "increment_template_usage"} :
         \E id \in 0..MaxRecords, d \in SvcData :
            /\ (id # 0) = (o \in {"get_template_by_id", "update_template",
                                  "delete_template", "set_default_template",
                                  "increment_template_usage"})
            /\ (d = NoData) \/ (o \in {"create_template", "update_template"})
            /\ svc = [NoSvc EXCEPT !.op = o, !.id = id, !.arg = d, !.data = d,
                                   !.pc = "start", !.status = "running"]

\* one CRUD call runs from its entry to its return or raise
SvcSpec == SvcInit /\ [][SvcNext]_vars

\* a text function is called with a text or a candidate
TextInit ==
    /\ AiIdle
    /\ store = <<>>
    /\ next_id = 1
    /\ req = [r \in Requests |-> Idle]
    /\ listing = NoListing
    /\ svc = NoSvc
    /\ call \in {Called("_extract_html_from_response", text) : text \in Texts(MaxPieces)}
               \cup {Called("_validate_html_template", html) : html \in Candidates}

TextSpec == TextInit /\ [][TextNext]_vars

\* ------------------------------------------------------------- the claims

Last(q) == q[Len(q)]

Terminal(e) == e.type \in {"complete", "error"}

CompleteEvents(evs) == {i \in 1..Len(evs) : evs[i].type = "complete"}

ErrorEvents(evs) == {i \in 1..Len(evs) : evs[i].type = "error"}

\* a response that is non-blank, at least 2000 characters long, and extracts
\* to a candidate that passes validation
GoodOutcome(o) ==
    /\ o.kind = "content"
    /\ Strip(o.content) # <<>>
    /\ StrLen(o.content) >= 2000
    /\ _validate_html_template(_extract_html_from_response(o.content))

\* C1: a finished run of generate_stream has yielded at least one event, its
\* last event is its only terminal event (complete or error), and every event
\* before it is a progress event.
C1_OneTerminalEvent ==
    (op = "generate_stream" /\ pc = "done") =>
        /\ events # <<>>
        /\ Terminal(Last(events))
        /\ \A i \in 1..(Len(events) - 1) : events[i].type = "thinking"

\* C2: generate never makes more than 5 provider calls, each call has ended
\* before the next is made, and when every response was empty or blank the
\* run ends after exactly 5 calls with an error and no result.
C2_RetryBound ==
    op = "generate" =>
        /\ Len(calls) <= 5
        /\ Len(history) = Len(calls)
        /\ ( /\ pc = "done"
             /\ history # <<>>
             /\ \A i \in 1..Len(history) :
                   history[i].kind = "content" /\ Strip(history[i].content) = <<>> )
           => (Len(calls) = 5 /\ status = "raised" /\ result = NoResult)

C2_Witness ==
    /\ op = "generate" /\ pc = "done" /\ status = "raised"
    /\ Len(history) = 5
    /\ \A i \in 1..5 : history[i].kind = "content" /\ Strip(history[i].content) = <<>>
    /\ history[1].content = <<>> /\ history[5].content = <<" ">>

\* C3: in generate no provider call follows a good response; once the latest
\* response is good the loop is left with that response and its extraction,
\* and they are what is returned; and the loop is not left before the fifth
\* call unless the latest response is good.
C3_FirstGoodAttemptWins ==
    (op = "generate" /\ history # <<>>) =>
        /\ \A i \in 1..Len(history) : GoodOutcome(history[i]) => i = Len(history)
        /\ GoodOutcome(Last(history)) =>
              /\ pc \in {"after_loop", "done"}
              /\ status # "raised"
              /\ full_response = Last(history).content
              /\ html_template = _extract_html_from_response(Last(history).content)
              /\ pc = "done" =>
                    /\ status = "returned"
                    /\ result.llm_response = Last(history).content
                    /\ result.html_template =
                          _extract_html_from_response(Last(history).content)
        /\ (pc \in {"after_loop", "done"} /\ ~GoodOutcome(Last(history)))
              => Len(history) = 5

C3_Witness ==
    /\ op = "generate" /\ status = "returned"
    /\ Len(history) = 3 /\ Len(calls) = 3
    /\ \A i \in 1..2 :
          /\ history[i].kind = "content"
          /\ StrLen(history[i].content) >= 2000
          /\ ~_validate_html_template(_extract_html_from_response(history[i].content))
    /\ GoodOutcome(history[3])
    /\ result.llm_response = history[3].content

\* C4: no exception leaves generate_stream; when the provider raised, the
\* generator has ended normally, its last event is its only error event and
\* carries the provider's message, there is no complete event, and every
\* event before the error is a chunk the provider delivered before raising
\* (none with a blocking provider); with no provider at all the stream is the
\* one error event.
C4_StreamNeverRaises ==
    op = "generate_stream" =>
        /\ status # "raised"
        /\ (pc = "done" /\ history # <<>> /\ Last(history).kind = "raise") =>
              /\ status = "finished"
              /\ events # <<>>
              /\ Last(events) = ErrorEvent(Last(history).error)
              /\ ErrorEvents(events) = {Len(events)}
              /\ CompleteEvents(events) = {}
              /\ \A i \in 1..(Len(events) - 1) :
                    events[i].type = "thinking" /\ events[i].content \in Chunks
              /\ ~can_stream => Len(events) = 1
        /\ (pc = "done" /\ provider = "None") =>
              (status = "finished" /\ events = <<ErrorEvent(ErrAttribute)>>)

C4_Witness ==
    /\ op = "generate_stream" /\ pc = "done" /\ status = "finished"
    /\ generation_mode = "one_to_one" /\ HasImagePart(messages) /\ can_stream
    /\ Last(history).kind = "raise"
    /\ events = <<ErrorEvent(ProviderError)>>

\* C5: the html_template of every result generate returns and of every
\* complete event a generator yields passes validation.
C5_ValidationGate ==
    /\ status = "returned" => _validate_html_template(result.html_template)
    /\ \A i \in CompleteEvents(events) :
          _validate_html_template(events[i].html_template)

C5_Witness ==
    /\ op = "generate_stream" /\ pc = "done"
    /\ CompleteEvents(events) = {Len(events)}
    /\ _validate_html_template(Last(events).html_template)
    /\ Last(events).html_template # full_response

\* C6: when the provider call of generate_stream has ended without error and
\* the text it gave extracts to a candidate that passes validation, the
\* finished stream ends with a complete event that carries the candidate and
\* the text.
C6_ValidOutputCompletes ==
    ( /\ op = "generate_stream" /\ pc = "done"
      /\ history # <<>> /\ Last(history).kind = "content"
      /\ _validate_html_template(_extract_html_from_response(Last(history).content)) )
    => /\ events # <<>>
       /\ Last(events).type = "complete"
       /\ Last(events).html_template =
             _extract_html_from_response(Last(history).content)
       /\ Last(events).llm_response = Last(history).content

\* C7: the step of delete_template that looks up an existing record whose
\* default flag is set ends the call with the validation error; the call has
\* issued the lookup and no delete, and the records are unchanged.
C7_DefaultDeleteRefused ==
    [][\A r \in Requests :
          ( /\ req[r].op = "delete" /\ req[r].pc = "lookup"
            /\ req'[r] # req[r]
            /\ db_exists(store, req[r].id)
            /\ store[req[r].id].is_default )
          => /\ req'[r].pc = "done"
             /\ req'[r].err = ErrDeleteDefault
             /\ req'[r].ret = "none"
             /\ req'[r].calls = <<"get_by_id">>
             /\ store' = store]_vars

C7_Witness ==
    \E r \in Requests :
        /\ req[r].op = "delete" /\ req[r].pc = "done"
        /\ req[r].err = ErrDeleteDefault
        /\ db_exists(store, req[r].id)
        /\ store[req[r].id].is_default

\* C8: the step of create_template that looks up a name some record holds,
\* active or not, ends the call with the validation error; the call has
\* issued the lookup and no create, and the records are unchanged.
C8_DuplicateNameRefused ==
    [][\A r \in Requests :
          ( /\ req[r].op = "create" /\ req[r].pc = "lookup"
            /\ req'[r] # req[r]
            /\ \E id \in DOMAIN store : store[id].template_name = req[r].name )
          => /\ req'[r].pc = "done"
             /\ req'[r].err = ErrNameExists
             /\ req'[r].ret = "none"
             /\ req'[r].calls = <<"get_by_name">>
             /\ store' = store
             /\ next_id' = next_id]_vars

C8_Witness ==
    \E r \in Requests :
        /\ req[r].op = "create" /\ req[r].pc = "done"
        /\ req[r].err = ErrNameExists
        /\ req[r].calls = <<"get_by_name">>
        /\ \E id \in DOMAIN store :
              store[id].template_name = req[r].name /\ ~store[id].is_active

\* C9: no two stored records have the same name.
C9_NamesUnique ==
    \A i, j \in DOMAIN store :
        i # j => store[i].template_name # store[j].template_name

\* C10: no step removes a record whose default flag is set.
C10_DefaultNeverDeleted ==
    [][\A id \in DOMAIN store : id \notin DOMAIN store' => ~store[id].is_default]_vars

\* the k-th response of generate is text that is not blank and is shorter
\* than 2000 characters
ShortOutcome(o) ==
    /\ o.kind = "content"
    /\ Strip(o.content) # <<>>
    /\ StrLen(o.content) < 2000

\* C11: in generate, while the latest response is non-blank and shorter than
\* 2000 characters and is one of the first four, the run is neither left nor
\* ended: the loop goes on to the next attempt, even when the response
\* extracts to a valid template; a short fifth response is returned, with its
\* extraction, exactly when the extraction passes validation, and the run
\* fails otherwise; so five equal short valid responses end in success after
\* exactly 5 calls.
C11_ShortResponseRetried ==
    (op = "generate" /\ history # <<>> /\ ShortOutcome(Last(history))) =>
        /\ Len(history) < 5 =>
              /\ pc = "attempt"
              /\ status = "running"
              /\ attempt = Len(history)
        /\ (Len(history) = 5 /\ pc = "done") =>
              LET html == _extract_html_from_response(Last(history).content)
              IN  IF _validate_html_template(html)
                  THEN /\ status = "returned"
                       /\ Len(calls) = 5
                       /\ result.html_template = html
                       /\ result.llm_response = Last(history).content
                  ELSE status = "raised"

C11_Witness ==
    /\ op = "generate" /\ pc = "done" /\ status = "returned"
    /\ Len(history) = 5 /\ Len(calls) = 5
    /\ \A i \in 1..5 : history[i] = history[1]
    /\ ShortOutcome(history[1])
    /\ _validate_html_template(_extract_html_from_response(history[1].content))
    /\ result.llm_response = history[1].content

\* C12 as claimed: generate has failed only when 5 provider calls have been
\* made.
C12_FailsOnlyAfterFiveCalls ==
    (op = "generate" /\ status = "raised") => Len(calls) = 5

\* C12 as amended: generate fails either before its first provider call, when
\* no provider is configured or building the image part raised, or after
\* exactly 5 provider calls, and then with the error of the fifth attempt;
\* it never fails after 1 to 4 calls.
C12_FailsBeforeOrAfterAllCalls ==
    (op = "generate" /\ status = "raised") =>
        \/ /\ Len(calls) = 0
           /\ error \in {ErrNoProvider, ErrKey}
           /\ error = ErrNoProvider <=> provider = "None"
        \/ /\ Len(calls) = 5
           /\ provider = "provider"
           /\ error \in ProviderErrors \cup {ErrEmpty, ErrExtract, ErrValidation}

C12_Witness ==
    /\ op = "generate" /\ status = "raised"
    /\ Len(calls) = 5 /\ Len(history) = 5
    /\ history[1].kind = "raise"
    /\ ShortOutcome(history[2])
    /\ history[5].kind = "content"

\* C13: in generate, while the latest provider call raised and was one of
\* the first four, nothing has left the operation and the loop goes on to
\* the next attempt; when the fifth call raised, generate has ended with
\* exactly that exception and no result; so when every call raised there
\* were exactly 5 calls and the error is the fifth call's.
C13_LastExceptionPropagates ==
    (op = "generate" /\ history # <<>> /\ Last(history).kind = "raise") =>
        /\ Len(history) < 5 =>
              /\ pc = "attempt"
              /\ status = "running"
              /\ error = "none"
              /\ attempt = Len(history)
        /\ Len(history) = 5 =>
              /\ pc = "done"
              /\ status = "raised"
              /\ error = history[5].error
              /\ result = NoResult
              /\ Len(calls) = 5

C13_Witness ==
    /\ op = "generate" /\ pc = "done" /\ status = "raised"
    /\ Len(calls) = 5
    /\ \A i \in 1..5 : history[i].kind = "raise"
    /\ history[4].error = ProviderError
    /\ history[5].error = "TimeoutError"
    /\ error = "TimeoutError"

\* C14: when generate has ended after a fifth call that returned text, the
\* fifth text alone decides the failure, whatever the first four calls did:
\* empty or blank text gives the empty-response error; text that is not blank
\* and extracts to an empty candidate gives the extraction error; a candidate
\* that is not empty and does not validate gives the validation error.
C14_FifthAttemptDecidesFailure ==
    ( /\ op = "generate" /\ pc = "done"
      /\ Len(history) = 5 /\ history[5].kind = "content" ) =>
        LET text == history[5].content
            html == _extract_html_from_response(text)
            blank == text = <<>> \/ Strip(text) = <<>>
            nocandidate == html = <<>> \/ Strip(html) = <<>>
        IN  /\ blank => (status = "raised" /\ error = ErrEmpty)
            /\ (~blank /\ nocandidate) => (status = "raised" /\ error = ErrExtract)
            /\ (~blank /\ ~nocandidate /\ ~_validate_html_template(html))
                  => (status = "raised" /\ error = ErrValidation)

C14_Witness ==
    /\ op = "generate" /\ pc = "done" /\ status = "raised"
    /\ Len(history) = 5
    /\ history[1].kind = "raise"
    /\ history[2].kind = "content" /\ Strip(history[2].content) = <<>>
    /\ history[3].kind = "content" /\ StrLen(history[3].content) >= 2000
    /\ ~_validate_html_template(_extract_html_from_response(history[3].content))
    /\ ShortOutcome(history[4])
    /\ history[5].kind = "content" /\ Strip(history[5].content) # <<>>
    /\ Strip(_extract_html_from_response(history[5].content)) = <<>>
    /\ error = ErrExtract

\* a finished run of adjust_stream: at most one provider call, text-style and
\* without an image part, and one terminal event, the last, which is complete
\* exactly when a call returned text whose extraction validates
AdjustSinglePass ==
    /\ Len(calls) <= 1
    /\ Len(history) = Len(calls)
    /\ \A i \in 1..Len(calls) :
          /\ calls[i].api = (IF can_stream THEN "stream_text_completion"
                             ELSE "text_completion")
          /\ ~calls[i].image
    /\ ~HasImagePart(messages)
    /\ status = "finished"
    /\ events # <<>>
    /\ Terminal(Last(events))
    /\ \A i \in 1..(Len(events) - 1) : events[i].type = "thinking"
    /\ Last(events).type = "complete" <=>
          /\ history # <<>>
          /\ Last(history).kind = "content"
          /\ _validate_html_template(_extract_html_from_response(Last(history).content))
    /\ Last(events).type = "complete" =>
          Last(events).html_template = _extract_html_from_response(Last(history).content)

\* C15 as claimed: every finished run of adjust_stream has made exactly one
\* provider call, text-style and without an image part, and has yielded
\* exactly one terminal event, its last: complete when the extraction of the
\* response validates, error otherwise.
C15_AdjustExactlyOneCall ==
    (op = "adjust_stream" /\ pc = "done") => (AdjustSinglePass /\ Len(calls) = 1)

\* C15 as amended: a run of adjust_stream never makes a second provider call;
\* a finished run has made exactly one call when a provider was resolved and
\* none when there is no provider, text-style and without an image part, and
\* has yielded exactly one terminal event, its last: complete when a call
\* returned text whose extraction validates, error otherwise.
C15_AdjustAtMostOneCall ==
    op = "adjust_stream" =>
        /\ Len(calls) <= 1
        /\ pc = "done" =>
              /\ AdjustSinglePass
              /\ Len(calls) = (IF provider = "None" THEN 0 ELSE 1)

C15_Witness ==
    /\ op = "adjust_stream" /\ pc = "done"
    /\ provider = "provider" /\ ~can_stream
    /\ calls = <<[api |-> "text_completion", image |-> FALSE]>>
    /\ Len(events) = 5
    /\ Last(events).type = "complete"
    /\ _validate_html_template(Last(events).html_template)

\* C16: no step of generate, generate_stream or adjust_stream, in a run that
\* succeeds or fails, creates, changes or removes a stored record, takes an
\* id, or issues a call to the persistence layer.
C16_NoPersistenceEffects ==
    [][ /\ store' = store
        /\ next_id' = next_id
        /\ \A r \in Requests : req'[r] = req[r] /\ req[r].calls = <<>> ]_vars

C16_Witness ==
    /\ op = "generate" /\ status = "returned"
    /\ _validate_html_template(result.html_template)
    /\ store = [i \in {1} |-> StoredRecord]
    /\ next_id = 2
    /\ \A r \in Requests : req[r] = Idle

\* the least number of pages of size d that hold n records
Ceiling(n, d) == CHOOSE k \in 0..n : k * d >= n /\ \A j \in 0..(k - 1) : j * d < n

\* C17: each paginated listing, of all templates and by tags, asks for the
\* window at offset (page-1)*page_size of page_size records and reports
\* total_pages = ceiling(total_count / page_size), has_next = page <
\* total_pages, has_prev = page > 1; has_next holds exactly when
\* page*page_size < total_count; no record gives no page and no next page;
\* 13 records in pages of 6 make 3 pages, page 3 has a previous and no next
\* page, page 1 has no previous page.
C17_Pagination ==
    listing.op # "none" =>
        LET page == listing.page
            page_size == listing.page_size
            total_count == listing.total_count
        IN  /\ listing.op \in {"get_all_templates_paginated",
                                "get_templates_by_tags_paginated"}
            /\ listing.offset = (page - 1) * page_size
            /\ listing.limit = page_size
            /\ listing.total_pages = Ceiling(total_count, page_size)
            /\ listing.has_next <=> page < listing.total_pages
            /\ listing.has_prev <=> page > 1
            /\ listing.has_next <=> page * page_size < total_count
            /\ total_count = 0 => (listing.total_pages = 0 /\ ~listing.has_next)
            /\ (page_size = 6 /\ total_count = 13) =>
                  /\ listing.total_pages = 3
                  /\ page = 3 => (~listing.has_next /\ listing.has_prev)
                  /\ page = 1 => ~listing.has_prev

C17_Witness ==
    /\ listing.op = "get_templates_by_tags_paginated"
    /\ listing.page = 3 /\ listing.page_size = 6 /\ listing.total_count = 13
    /\ listing.offset = 12 /\ listing.limit = 6 /\ listing.templates = 1
    /\ listing.total_pages = 3
    /\ ~listing.has_next /\ listing.has_prev

\* the message is the one text part built from the text-only template
TextOnlyMessage == messages = <<TextPart("text_only")>>

\* C18: in generate and generate_stream the message carries an image part,
\* and a provider call is made with one, only when the mode is not text_only
\* and a reference image was given; with mode text_only the message is the
\* single text part of the text-only template even when an image was given;
\* with mode reference_style or one_to_one and no image it is that same
\* message, and building it raises nothing (pc = "start": nothing built yet).
C18_ImagePartOnlyWithModeAndImage ==
    op \in {"generate", "generate_stream"} =>
        /\ HasImagePart(messages) =>
              (generation_mode # "text_only" /\ ImageGiven(reference_image))
        /\ \A i \in 1..Len(calls) :
              calls[i].image =>
                  (generation_mode # "text_only" /\ ImageGiven(reference_image))
        /\ (pc # "start" /\ generation_mode = "text_only") => TextOnlyMessage
        /\ ( /\ generation_mode \in {"reference_style", "one_to_one"}
             /\ ~ImageGiven(reference_image) )
           => /\ error # ErrKey
              /\ pc # "start" => TextOnlyMessage

C18_Witness ==
    /\ op = "generate" /\ status = "returned"
    /\ generation_mode = "reference_style"
    /\ ~ImageGiven(reference_image)
    /\ TextOnlyMessage
    /\ \A i \in 1..Len(calls) : ~calls[i].image

\* C19: in generate and generate_stream a mode that is none of text_only,
\* reference_style and one_to_one gives the text-only message, with or
\* without a reference image: the message built is the one text part of the
\* text-only template, and no provider call is made with an image part.
C19_UnknownModeFallsBack ==
    ( /\ op \in {"generate", "generate_stream"}
      /\ generation_mode \notin {"text_only", "reference_style", "one_to_one"}
      /\ messages # <<>> )
    => /\ TextOnlyMessage
       /\ \A i \in 1..Len(calls) : ~calls[i].image

\* C20 as claimed: every provider call of generate is chat-style when the
\* message has an image part and text-style when it has none.
C20_CallStyleFollowsImage ==
    op = "generate" =>
        \A i \in 1..Len(calls) :
            calls[i].api = (IF calls[i].image THEN "chat_completion"
                            ELSE "text_completion")

\* C20 as amended: every provider call of generate is chat-style, when the
\* message has an image part and when it has none; generate never invokes
\* the text-style completion.
C20_AlwaysChatStyle ==
    op = "generate" =>
        \A i \in 1..Len(calls) :
            /\ calls[i].api = "chat_completion"
            /\ calls[i].image = HasImagePart(messages)

C20_Witness ==
    /\ op = "generate" /\ status = "returned"
    /\ ~ImageGiven(reference_image)
    /\ TextOnlyMessage
    /\ Len(calls) = 2
    /\ \A i \in 1..2 : calls[i] = [api |-> "chat_completion", image |-> FALSE]

\* the fence that closes the block opened at position i of text s
NextFence(s, i) == Min({k \in (i + 1)..Len(s) : IsFence(s[k])})

\* the positions of the html fences of s that open a block, closed by the
\* next fence, around a well-formed document
DocBlocks(s) ==
    {i \in 1..Len(s) :
        /\ s[i] = "FENCEhtml"
        /\ \E k \in (i + 1)..Len(s) : IsFence(s[k])
        /\ _validate_html_template(SubSeq(s, i + 1, NextFence(s, i) - 1))
        /\ IsEndHtml(Last(Strip(SubSeq(s, i + 1, NextFence(s, i) - 1))))}

\* C21 as claimed: when the text holds a block fenced with an html fence
\* around a well-formed document, extraction returns the content between
\* that fence and the next fence, trimmed and otherwise as it is.
C21_FencedDocumentExtracted ==
    (call.fn = "_extract_html_from_response" /\ call.returned) =>
        \A i \in DocBlocks(call.arg) :
            call.ret = Strip(SubSeq(call.arg, i + 1, NextFence(call.arg, i) - 1))

\* C21 as amended: when the first html fence of the text opens a block
\* around a well-formed document, extraction returns the content between
\* that fence and the next fence, trimmed and otherwise as it is.
C21_FirstFencedDocumentExtracted ==
    (call.fn = "_extract_html_from_response" /\ call.returned) =>
        \A i \in DocBlocks(call.arg) :
            (\A k \in 1..(i - 1) : call.arg[k] # "FENCEhtml") =>
                call.ret = Strip(SubSeq(call.arg, i + 1, NextFence(call.arg, i) - 1))

C21_Witness ==
    /\ call.fn = "_extract_html_from_response" /\ call.returned
    /\ call.arg = <<"FENCEhtml", " ">> \o ValidDoc \o <<"FENCE">>
    /\ call.ret = ValidDoc

\* text s from its first to its last token that is not white space
Trimmed(s) ==
    LET inked == {k \in 1..Len(s) : s[k] # " "}
    IN  IF inked = {} THEN <<>>
        ELSE SubSeq(s, Min(inked), CHOOSE k \in inked : \A m \in inked : m <= k)

\* text s holds no html fence and no doctype followed by a closing html tag,
\* in any letter case
NoHtmlMarkers(s) ==
    /\ \A k \in 1..Len(s) : s[k] # "FENCEhtml"
    /\ \A d \in 1..Len(s), e \in 1..Len(s) :
          ~(d < e /\ LowerTok(s[d]) = "<!doctype html" /\ LowerTok(s[e]) = "</html>")

\* C22: for a text with no html fence and no doctype-to-closing-tag span,
\* extraction returns the text without its leading and trailing white space
\* and otherwise unchanged.
C22_NoMarkersReturnsTrimmedInput ==
    ( /\ call.fn = "_extract_html_from_response" /\ call.returned
      /\ NoHtmlMarkers(call.arg) )
    => call.ret = Trimmed(call.arg)

C22_Witness ==
    /\ call.fn = "_extract_html_from_response" /\ call.returned
    /\ call.arg = <<" ", "<!doctype html", "FENCE", " ">>
    /\ call.ret = <<"<!doctype html", "FENCE">>

\* text s holds the tag, in any letter case
HoldsTag(s, tag) == \E k \in 1..Len(s) : LowerTok(s[k]) = tag

\* C23: validation returns true exactly when the candidate is a string that
\* is not blank, whose first token after the leading white space is a
\* doctype in any letter case, and that holds the closing html tag and the
\* opening head, body and title tags in any letter case; the empty string
\* and a document without a title are invalid, a document with doctype,
\* head, body, title and closing tag is valid.
C23_ValidExactlyWhenStructured ==
    (call.fn = "_validate_html_template" /\ call.returned) =>
        /\ call.ret \in BOOLEAN
        /\ call.ret <=>
              /\ call.arg # None
              /\ Trimmed(call.arg) # <<>>
              /\ LowerTok(Trimmed(call.arg)[1]) = "<!doctype html"
              /\ HoldsTag(call.arg, "</html>")
              /\ HoldsTag(call.arg, "<head")
              /\ HoldsTag(call.arg, "<body")
              /\ HoldsTag(call.arg, "<title")
        /\ call.arg = <<>> => ~call.ret
        /\ call.arg = <<"<!DOCTYPE html", "<head", "<body", "</html>">> => ~call.ret
        /\ call.arg = <<"<!DOCTYPE html", "<head", "<body", "<title", "</html>">>
              => call.ret

C23_Witness ==
    /\ call.fn = "_validate_html_template" /\ call.returned
    /\ call.arg = <<" ", "<!DOCTYPE html", "<head", "<body", "<TITLE", "</HTML>", " ">>
    /\ call.ret = TRUE

\* the html fences of s that have a fence after them
HtmlBlocks(s) ==
    {i \in 1..Len(s) : s[i] = "FENCEhtml" /\ \E k \in (i + 1)..Len(s) : IsFence(s[k])}

\* [d, e]: a doctype-to-closing-tag span of s that follows a fence and is
\* followed by a fence, with nothing but white space in between
FencedSpans(s) ==
    {de \in (1..Len(s)) \X (1..Len(s)) :
        /\ de[1] < de[2]
        /\ LowerTok(s[de[1]]) = "<!doctype html"
        /\ LowerTok(s[de[2]]) = "</html>"
        /\ \E k \in 1..(de[1] - 1) :
              IsFence(s[k]) /\ \A m \in (k + 1)..(de[1] - 1) : s[m] = " "
        /\ \E c \in (de[2] + 1)..Len(s) :
              IsFence(s[c]) /\ \A m \in (de[2] + 1)..(c - 1) : s[m] = " "}

\* the doctypes of s that have a closing tag after them
SpanStarts(s) ==
    {d \in 1..Len(s) :
        /\ LowerTok(s[d]) = "<!doctype html"
        /\ \E e \in (d + 1)..Len(s) : LowerTok(s[e]) = "</html>"}

\* C29: extraction answers with the first of its rules that matches: when
\* the text has an html fenced block, the trimmed content of the first one,
\* whatever it is and whatever doctype spans the text holds elsewhere;
\* otherwise, when it has a fenced doctype-to-closing-tag span, such a span;
\* otherwise, when it has a doctype with a closing tag after it, the span
\* from the first such doctype to the first closing tag after it; otherwise
\* the trimmed text.
C29_FirstMatchingRuleWins ==
    (call.fn = "_extract_html_from_response" /\ call.returned) =>
        LET s == call.arg
        IN  IF HtmlBlocks(s) # {}
            THEN call.ret = Trimmed(SubSeq(s, Min(HtmlBlocks(s)) + 1,
                                           NextFence(s, Min(HtmlBlocks(s))) - 1))
            ELSE IF FencedSpans(s) # {}
            THEN \E de \in FencedSpans(s) : call.ret = SubSeq(s, de[1], de[2])
            ELSE IF SpanStarts(s) # {}
            THEN LET d == Min(SpanStarts(s))
                     e == Min({k \in (d + 1)..Len(s) : LowerTok(s[k]) = "</html>"})
                 IN  call.ret = SubSeq(s, d, e)
            ELSE call.ret = Trimmed(s)

C29_Witness ==
    /\ call.fn = "_extract_html_from_response" /\ call.returned
    /\ call.arg = ValidDoc \o <<"FENCEhtml", "text", "FENCE">>
    /\ call.ret = <<"text">>

StreamingApis == {"stream_chat_completion", "stream_text_completion"}

\* a finished run of generate_stream: no call but the one its provider's
\* capability selects, and after a rejected template one error event, the last
StreamSinglePass ==
    /\ \A i \in 1..Len(calls) : (calls[i].api \in StreamingApis) = can_stream
    /\ html_template # None /\ ~_validate_html_template(html_template)
        => /\ Cardinality(ErrorEvents(events)) = 1
           /\ Last(events).type = "error"
           /\ Last(events).message = ErrInvalid

\* C27 as claimed: every finished run of generate_stream has made exactly one
\* provider call, a streaming call when the provider can stream and a
\* blocking call when it cannot, and a rejected template has produced one
\* error event and no further call.
C27_StreamExactlyOneCall ==
    (op = "generate_stream" /\ pc = "done") => (StreamSinglePass /\ Len(calls) = 1)

\* C27 as amended: a run of generate_stream never makes a second provider
\* call; a finished run has made exactly one call when a provider was
\* resolved and none when there is no provider, a streaming call when the
\* provider can stream and a blocking call when it cannot, and a rejected
\* template has produced one error event and no further call.
C27_StreamAtMostOneCall ==
    op = "generate_stream" =>
        /\ Len(calls) <= 1
        /\ pc = "done" =>
              /\ StreamSinglePass
              /\ Len(calls) = (IF provider = "None" THEN 0 ELSE 1)

\* a streamed response was rejected: one streaming call, one error event
C27_Witness ==
    /\ op = "generate_stream" /\ pc = "done"
    /\ provider = "provider" /\ can_stream
    /\ calls = <<[api |-> "stream_text_completion", image |-> FALSE]>>
    /\ html_template # None /\ ~_validate_html_template(html_template)
    /\ Last(events).type = "error"

\* the contents of the first n events, concatenated
Contents(evs, n) == Concat([i \in 1..n |-> evs[i].content])

\* the first n events are the provider's chunks: progress events whose
\* contents, in order, make up the text received
ChunkEvents(n) ==
    /\ \A i \in 1..n : events[i].type = "thinking" /\ events[i].content \in Chunks
    /\ Contents(events, n) = full_response

\* the status lines the generators yield after a provider's stream
StatusLines == {StatusOptimizing, StatusReady, StatusAdjustDoneNl}

\* a run of generate_stream or adjust_stream on a provider that streams
Streams == op \in {"generate_stream", "adjust_stream"} /\ can_stream

\* C28: with a provider that streams, each chunk is yielded as one progress
\* event holding the chunk, in order and ahead of every status event; the text
\* that is extracted and validated, and that complete carries as llm_response,
\* is the chunks concatenated in order; a stream that fails after n chunks
\* leaves n progress events and one error event.
C28_ChunksInOrder ==
    /\ [][Streams /\ pc = "streaming" /\ pc' = "streaming" /\ events' # events =>
            \E chunk \in Chunks :
                /\ events' = Append(events, Thinking(chunk))
                /\ full_response' = full_response \o chunk]_vars
    /\ [](Streams /\ pc = "streaming" => ChunkEvents(Len(events)))
    /\ [](Streams /\ pc \in {"post", "done"} =>
            \E n \in 0..Len(events) :
                /\ ChunkEvents(n)
                /\ \A i \in (n + 1)..Len(events) :
                      \/ events[i].type = "thinking" /\ events[i].content \in StatusLines
                      \/ Terminal(events[i])
                /\ history # <<>> /\ Last(history).kind = "raise" =>
                      /\ Len(events) = n + 1
                      /\ Last(events).type = "error")
    /\ [](Streams /\ html_template # None =>
            html_template = _extract_html_from_response(full_response))
    /\ [](Streams /\ op = "generate_stream" /\ CompleteEvents(events) # {} =>
            \A i \in CompleteEvents(events) : events[i].llm_response = full_response)

\* three chunks were yielded in order and the document they make up validated
C28_Witness ==
    /\ op = "generate_stream" /\ pc = "done" /\ can_stream
    /\ Len(events) = MaxChunks + 3
    /\ events[1].content = <<"text", "FENCEhtml">>
    /\ events[2].content = ValidDoc
    /\ events[3].content = <<"FENCE">>
    /\ Last(events).type = "complete"
    /\ Last(events).html_template = ValidDoc
    /\ Last(events).llm_response = <<"text", "FENCEhtml">> \o ValidDoc \o <<"FENCE">>


\* the CRUD call has returned or raised
SvcDone == svc.op # "none" /\ svc.pc = "done"

\* C24: a CRUD operation holds at most one open session at any moment, and
\* once it has returned or raised, or is in its except clause, every session
\* it acquired has been released
C24_SessionsScoped ==
    /\ svc.open \in {0, 1}
    /\ svc.open <= svc.acquired
    /\ svc.pc \in {"done", "except"} => svc.open = 0

\* create_template has raised for a taken name, out of its session block
C24_Witness ==
    /\ SvcDone
    /\ svc.op = "create_template"
    /\ svc.status = "raised" /\ svc.err = ErrNameExists
    /\ svc.acquired = 1 /\ svc.open = 0

\* the store holds no default record
NoDefault == \A i \in DOMAIN store : ~store[i].is_default

\* the step in which a lookup by id, or for the default, returns no record
LookupFindsNothing ==
    /\ svc.pc = "call"
    /\ svc'.calls = Append(svc.calls, DbOp(svc))
    /\ ~svc'.failed
    /\ \/ DbOp(svc) = "get_by_id" /\ svc.id \notin DOMAIN store
       \/ DbOp(svc) = "get_default" /\ NoDefault

\* C25: when the collaborator finds no record, get_template_by_id and
\* get_default_template return None and delete_template returns False,
\* nothing is raised and no delete call is issued; an error raised by the
\* collaborator in any CRUD operation is raised to the caller, with no result
C25_NotFoundIsNotFailure ==
    /\ [][LookupFindsNothing =>
            /\ svc'.next = "return" /\ svc'.err = "none"
            /\ svc'.ret = IF svc.op = "delete_template" THEN "False" ELSE "None"
            /\ svc'.pc = "exit"]_vars
    /\ [](SvcDone /\ svc.ret \in {"None", "False"} =>
            svc.status = "returned" /\ svc.err = "none" /\ ~svc.failed)
    /\ [](SvcDone /\ svc.op = "delete_template" /\ svc.ret = "False" =>
            svc.calls = <<"get_by_id">>)
    /\ [](SvcDone /\ svc.failed =>
            svc.status = "raised" /\ svc.err = DbError /\ svc.ret = "none")

\* delete_template has returned False for an id with no record
C25_Witness ==
    /\ SvcDone
    /\ svc.op = "delete_template" /\ svc.id \notin DOMAIN store
    /\ svc.status = "returned" /\ svc.ret = "False"
    /\ svc.calls = <<"get_by_id">>

\* C26: create_template with a missing or empty template_name or
\* html_template raises the missing-field ValueError, having acquired no
\* session and issued no call to the collaborator
C26_MissingFieldBeforePersistence ==
    /\ svc.op = "create_template"
    /\ svc.arg.template_name \in FieldStates \/ svc.arg.html_template \in FieldStates
    /\ svc.pc # "start"
    => /\ svc.err = ErrMissingField
       /\ svc.calls = <<>> /\ svc.acquired = 0
       /\ svc.pc \in {"except", "done"}
       /\ svc.pc = "done" => svc.status = "raised"

\* create_template has raised for an empty html_template beside a name
C26_Witness ==
    /\ SvcDone
    /\ svc.op = "create_template"
    /\ svc.arg.template_name = "a" /\ svc.arg.html_template = "empty"
    /\ svc.status = "raised" /\ svc.err = ErrMissingField

\* a record with another id holds the name update_template was given
OtherHolder ==
    \E i \in DOMAIN store : i # svc.id /\ store[i].template_name = svc.arg.template_name

\* C30: update_template with the name of a record of another id raises the
\* name ValueError with no update call; with a name no other record holds
\* the update is delegated; html_template without preview_image and
\* style_config regenerates both, and without html_template neither is added
C30_UpdateNameCheckAndRegeneration ==
    /\ SvcDone /\ svc.op = "update_template" /\ ~svc.failed /\ OtherHolder
        => /\ svc.status = "raised" /\ svc.err = ErrNameExists
           /\ svc.calls = <<"get_by_name">>
    /\ SvcDone /\ svc.op = "update_template" /\ ~svc.failed /\ ~OtherHolder
        => /\ svc.status = "returned"
           /\ Last(svc.calls) = "update"
    /\ svc.op = "update_template" /\ svc.block = 2
        => /\ Present(svc.arg.html_template)
              /\ ~Present(svc.arg.preview_image) /\ ~Present(svc.arg.style_config)
              => svc.data.preview_image = "generated"
                 /\ svc.data.style_config = "generated"
           /\ ~Present(svc.arg.html_template)
              => svc.data.preview_image = svc.arg.preview_image
                 /\ svc.data.style_config = svc.arg.style_config

\* C31: in generate the loop is left, other than by a raise, only by the break
\* of an attempt whose response was extracted into a template that validates;
\* the html_template returned is the extraction of the llm_response returned,
\* which is the response of the last call; and the check after the loop
\* never raises.
C31_ResultFromOneAttempt ==
    op = "generate" =>
        /\ pc = "after_loop" =>
              /\ attempt < max_retries
              /\ history # <<>> /\ Last(history).kind = "content"
              /\ full_response = Last(history).content
              /\ html_template = _extract_html_from_response(full_response)
              /\ ~Falsy(html_template)
              /\ _validate_html_template(html_template)
        /\ status = "returned" =>
              /\ result.llm_response = Last(history).content
              /\ result.html_template = _extract_html_from_response(result.llm_response)
        /\ error # ErrNoTemplate

\* the first attempt left a rejected template behind, the second one returned
\* its own response and the template extracted from it
C31_Witness ==
    /\ op = "generate" /\ status = "returned"
    /\ Len(history) = 2
    /\ history[1].kind = "content"
    /\ _extract_html_from_response(history[1].content) = NoTitleDoc
    /\ result.html_template = ValidDoc
    /\ result.llm_response = history[2].content

\* the trimmed text starts with a doctype and ends with a closing html tag,
\* in any letter case
WholeDocument(s) ==
    /\ Trimmed(s) # <<>>
    /\ LowerTok(Trimmed(s)[1]) = "<!doctype html"
    /\ LowerTok(Last(Trimmed(s))) = "</html>"

\* C32: the whole-text rule of extraction never decides the result: a text
\* whose trimmed form starts with a doctype and ends with a closing html tag
\* has a doctype with a closing tag after it, so the result is the content of
\* its first html fenced block, or a fenced doctype-to-closing-tag span, or
\* the span from the first doctype to the first closing tag after it.
C32_WholeTextRuleNeverDecides ==
    (call.fn = "_extract_html_from_response" /\ call.returned) =>
        LET s == call.arg
        IN  /\ ExtractRule(s) # 4
            /\ WholeDocument(s) =>
                  /\ SpanStarts(s) # {}
                  /\ LET d == Min(SpanStarts(s))
                         e == Min({k \in (d + 1)..Len(s) : LowerTok(s[k]) = "</html>"})
                     IN  \/ call.ret = SubSeq(s, d, e)
                         \/ /\ HtmlBlocks(s) # {}
                            /\ call.ret = Trimmed(SubSeq(s, Min(HtmlBlocks(s)) + 1,
                                                NextFence(s, Min(HtmlBlocks(s))) - 1))
                         \/ \E de \in FencedSpans(s) : call.ret = SubSeq(s, de[1], de[2])

\* a text that is a document from end to end, with a closing tag inside: the
\* result stops at the first closing tag
C32_Witness ==
    /\ call.fn = "_extract_html_from_response" /\ call.returned
    /\ call.arg = <<"<!doctype html", "</HTML>", "text", "</HTML>">>
    /\ WholeDocument(call.arg)
    /\ call.ret = <<"<!doctype html", "</HTML>">>

====
